---- MODULE Spec2Model ----
(***************************************************************************)
(* openskill: sandbox orchestration (SandboxService) and the command       *)
(* execution server (proxy-server).                                        *)
(*                                                                         *)
(* Strings that the code inspects character by character (skill names,     *)
(* container names) are sequences of character codes.  Opaque texts        *)
(* (messages, output chunks) are TLA+ strings or sequences of them.        *)
(* An optional value is <<>> (undefined) or <<v>>.                         *)
(***************************************************************************)
EXTENDS Integers, Sequences, FiniteSets, TLC

VARIABLES
    \* ---- the container runtime (docker), shared by every caller
    dockerUp,            \* the docker binary/daemon answers commands
    imageExists,         \* `docker images -q <imageName>` is non-empty
    containers,          \* container name -> [status, port, health]
    \* ---- SandboxService fields set by the constructor
    isCustomImage,
    customContainerName,
    \* ---- one record of control state per caller (an async call chain)
    pc, op, skillName, hostPort, actualHostPort, attempt, info, result,
    \* ---- what each caller did during its current call
    log, probes, okProbes, fetches,
    \* ---- the previous call of each caller
    prevSkill, prevInfo, calls,
    \* ---- execution server: one POST /bash/exec request
    request,             \* the request body
    server,              \* where the handler is: new, waiting, closed
    child,               \* the spawned process: none, running, exited
    exitStatus,          \* how the child ended: [code, signal]
    pipeOut, pipeErr,    \* output the child wrote that no data event delivered yet
    written,             \* number of chunks the child wrote
    stdout, stderr,      \* the handler's accumulators
    killed,              \* the handler's flag
    procExitCode,        \* proc.exitCode
    timer,               \* the timeout timer: unset, set, fired, cleared
    errorPending,        \* spawn failed: an 'error' event is queued
    signals,             \* SIGTERMs sent with proc.kill
    responses,           \* bodies passed to resolve / returned, in order
    clientResult,        \* what executeCommand makes of the response
    httpStatus,          \* HTTP status of each body in `responses`
    \* ---- the command the child runs
    termination,         \* exits by itself, only on SIGTERM, or never
    descendant,          \* a background process of the child holds its pipes
    \* ---- execution server: one POST /bash request (streaming)
    stream,              \* where the handler is: new, waiting, closed
    events,              \* the lines written to the response stream
    sKilled,             \* the streaming handler's flag
    \* ---- the MCP server (createServer) and its cleanup
    startedContainers,   \* the set of skill names tracked in this session
    taskPc, taskOp,      \* per skill: the stop / remove / cleanup task running on it
    taskLog, taskErr,    \* per skill: runtime commands of that task, error it threw
    cleanups,            \* number of cleanup() invocations so far
    cleanupPc,           \* the latest cleanup(): idle, running, returned, threw
    apiCalls,            \* number of direct stopContainer / removeContainer calls
    attempted, succeeded,\* skills of the use-skill calls made / that succeeded
    callsSinceCleanup,   \* use-skill calls received since the last cleanup()
    \* ---- prewarm(), started by createServer and not awaited
    prewarmPc,           \* off, or where the background prewarm is
    prewarmLog,          \* runtime commands prewarm issued
    prewarmThrew,        \* an error escaped prewarm()
    \* ---- evaluation of the pure helpers (names, ports, child environment)
    input,               \* the arguments drawn for the evaluation
    output               \* the values computed from them, <<>> before

rtVars  == <<dockerUp, imageExists, containers>>
pwVars  == <<prewarmPc, prewarmLog, prewarmThrew>>
pfVars  == <<input, output>>
\* what no step of a caller, a handler or a stop / remove task changes
cfgVars == <<isCustomImage, customContainerName, cleanupPc, pwVars, pfVars>>
clVars  == <<pc, op, skillName, hostPort, actualHostPort, attempt, info, result,
             log, probes, okProbes, fetches, prevSkill, prevInfo, calls>>
\* the request and the child process
chVars  == <<request, child, exitStatus, pipeOut, pipeErr, written, procExitCode,
             timer, errorPending, signals, termination, descendant>>
\* the handler of POST /bash/exec and its client
bfVars  == <<server, stdout, stderr, killed, responses, httpStatus, clientResult>>
\* the handler of POST /bash
stVars  == <<stream, events, sKilled>>
exVars  == <<chVars, bfVars, stVars>>
seVars  == <<startedContainers, taskPc, taskOp, taskLog, taskErr, cleanups, apiCalls,
             attempted, succeeded, callsSinceCleanup>>
vars    == <<rtVars, cfgVars, clVars, exVars, seVars>>

(***************************************************************************)
(* Bounds of the model                                                     *)
(***************************************************************************)
MaxCalls == 2
MaxChunks == 2
MaxCleanups == 2
\* longest identity a port is evaluated for, and evaluations per identity
MaxIdLen == 8
MaxEvals == 2
\* longest working directory path a name is derived for
MaxPathLen == 4
MaxApiCalls == 1
\* longest content written to a file
MaxContentLen == 3

\* skill identities "a" and "ab": the container name of the first is a
\* substring of the container name of the second
SkillA  == <<97>>
SkillAB == <<97, 98>>
Skills  == {SkillA, SkillAB}
\* a container name override ("c"), or none
NameOverrides == {<<>>, <<99>>}
\* host ports a previously created environment may be bound to, other than
\* the computed ones
OtherPorts == {3500}
Callers == {"c1"}

\* the exit code Node reports for a child that a signal terminated (null),
\* and proc.exitCode while the child has not exited
Null == -1

(***************************************************************************)
(* Naming and port derivation                                              *)
(***************************************************************************)
\* process.cwd() of the server: "/w"
Cwd == <<47, 119>>

\* path.basename of an absolute path without trailing separator
Basename(p) ==
    LET seps == { i \in 1..Len(p) : p[i] = 47 }
        last == CHOOSE i \in seps : \A j \in seps : j <= i
    IN  IF seps = {} THEN p ELSE SubSeq(p, last + 1, Len(p))

\* String.prototype.toLowerCase on ASCII
ToLowerCase(s) ==
    [i \in 1..Len(s) |-> IF s[i] >= 65 /\ s[i] <= 90 THEN s[i] + 32 ELSE s[i]]

\* the character class [a-z0-9-]
NameChar(c) ==
    \/ c >= 97 /\ c <= 122
    \/ c >= 48 /\ c <= 57
    \/ c = 45

\* .replace(/[^a-z0-9-]/g, '-')
Sanitise(s) == [i \in 1..Len(s) |-> IF NameChar(s[i]) THEN s[i] ELSE 45]

\* the constructor's repoPrefix for a working directory
RepoPrefixOf(cwd) == Sanitise(ToLowerCase(Basename(cwd)))

repoPrefix == RepoPrefixOf(Cwd)

\* the literal "-openskill-skill-"
SkillInfix ==
    <<45, 111, 112, 101, 110, 115, 107, 105, 108, 108,
      45, 115, 107, 105, 108, 108, 45>>

\* faulty variant: the override is ignored
ContainerNamePerSkill(prefix, custom, skill) ==
    prefix \o SkillInfix \o skill

ContainerNameIn(prefix, custom, skill) ==
    IF custom # <<>>
    THEN prefix \o <<45>> \o custom
    ELSE prefix \o SkillInfix \o skill

getContainerName(custom, skill) == ContainerNameIn(repoPrefix, custom, skill)

\* A JavaScript number is wider than one machine integer here: the pair
\* <<h, l>> stands for h * 65536 + l with 0 <= l < 65536.
Wide(h, l) == <<h + (l \div 65536), l % 65536>>

\* ToInt32: the value modulo 2^32, taken as a signed 32-bit integer
ToInt32(a) ==
    LET h == a[1] % 65536
    IN  <<IF h >= 32768 THEN h - 65536 ELSE h, a[2]>>

\* (acc << 5): ToInt32(acc) shifted left by 5 and truncated to 32 bits, signed
ShiftLeft5(acc) ==
    LET a == ToInt32(acc)
    IN  ToInt32(Wide(a[1] * 32, a[2] * 32))

\* a - b and a + n on numbers: exact, nothing is truncated
Minus(a, b) == Wide(a[1] - b[1], a[2] - b[2])
Plus(a, n) == Wide(a[1], a[2] + n)

\* the reducer: ((acc << 5) - acc) + char.charCodeAt(0)
HashStep(acc, char) == Plus(Minus(ShiftLeft5(acc), acc), char)

\* skillName.split('').reduce(reducer, acc)
RECURSIVE HashFrom(_, _)
HashFrom(acc, s) ==
    IF s = <<>> THEN acc
    ELSE HashFrom(HashStep(acc, Head(s)), Tail(s))

Negative(a) == a[1] < 0

\* Math.abs
Abs(a) == IF Negative(a) THEN Wide(-a[1], -a[2]) ELSE a

\* a % 1000: the remainder has the sign of the dividend (65536 % 1000 = 536)
Rem1000(a) ==
    IF Negative(a)
    THEN -((((-a[1] - 1) % 1000) * 536 + (65536 - a[2])) % 1000)
    ELSE ((a[1] % 1000) * 536 + a[2]) % 1000

\* faulty variant: the remainder of the hash itself, negative for a
\* negative hash
PortOfNoAbs(hash) == 3000 + Rem1000(hash)

\* 3000 + (Math.abs(hash) % 1000)
PortOf(hash) == 3000 + Rem1000(Abs(hash))

getAvailablePort(skill) == PortOf(HashFrom(<<0, 0>>, skill))

Url(port) == <<"http://localhost:", port>>

AllNames == { getContainerName(c, s) : c \in NameOverrides, s \in Skills }
NamesOf(custom) == { getContainerName(custom, s) : s \in Skills }
Ports == { getAvailablePort(s) : s \in Skills } \cup OtherPorts

(***************************************************************************)
(* The container runtime                                                   *)
(***************************************************************************)
Absent == [status |-> "absent", port |-> 0, health |-> "down"]

IsSubstring(n, m) ==
    \E i \in 0..(Len(m) - Len(n)) : SubSeq(m, i + 1, i + Len(n)) = n

\* `docker ps [-a] --filter "name=<filter>" --format "{{.Names}}"`: the names
\* of the (running / all) containers whose name contains the filter
DockerPs(cs, filter, all) ==
    { n \in DOMAIN cs :
        /\ cs[n].status # "absent"
        /\ all \/ cs[n].status = "running"
        /\ IsSubstring(filter, n) }

\* stdout.trim() === containerName: exactly one line, equal to the name
OutputIs(names, containerName) == names = {containerName}

PortInUse(cs, port, except) ==
    \E n \in DOMAIN cs \ {except} : cs[n].status = "running" /\ cs[n].port = port

\* the server listening on a host port, "down" when nothing listens
HealthOf(cs, port) ==
    IF \E n \in DOMAIN cs : cs[n].status = "running" /\ cs[n].port = port
    THEN cs[CHOOSE n \in DOMAIN cs : cs[n].status = "running" /\ cs[n].port = port].health
    ELSE "down"

\* `docker start <name>`: fails when the container does not exist or when its
\* host port is bound by another running container
DockerStartOk(up, cs, name) ==
    /\ up
    /\ cs[name].status # "absent"
    /\ \/ cs[name].status = "running"
       \/ ~PortInUse(cs, cs[name].port, name)

DockerStarted(cs, name) ==
    IF cs[name].status = "running" THEN cs
    ELSE [cs EXCEPT ![name] = [@ EXCEPT !.status = "running", !.health = "down"]]

\* `docker run -d --name <name> -p <port>:3000 <image>`: fails on a name
\* conflict (nothing changes) and on a port conflict (the container is
\* created but not started)
DockerRunOk(up, cs, name, port) ==
    /\ up
    /\ cs[name].status = "absent"
    /\ ~PortInUse(cs, port, name)

DockerRan(up, cs, name, port) ==
    IF ~up \/ cs[name].status # "absent" THEN cs
    ELSE IF PortInUse(cs, port, name)
    THEN [cs EXCEPT ![name] = [status |-> "stopped", port |-> port, health |-> "down"]]
    ELSE [cs EXCEPT ![name] = [status |-> "running", port |-> port, health |-> "down"]]

(***************************************************************************)
(* SandboxService: queries and decisions                                   *)
(***************************************************************************)
maxAttempts == 30

isImageBuilt(up, img) == up /\ img

isContainerRunning(up, cs, custom, skill) ==
    /\ up
    /\ OutputIs(DockerPs(cs, getContainerName(custom, skill), FALSE),
                getContainerName(custom, skill))

\* `docker port <name> 3000`: the bound host port, or null
getContainerPort(up, cs, name) ==
    IF up /\ cs[name].status = "running" THEN <<cs[name].port>> ELSE <<>>

\* faulty variant: the fast path answers with the computed port
FastPathComputedPort(actualPort, skill) == getAvailablePort(skill)

\* const hostPort = actualPort || await this.getAvailablePort(skillName)
FastPathPort(actualPort, skill) ==
    IF actualPort # <<>> THEN actualPort[1] ELSE getAvailablePort(skill)

\* existingContainer.trim() === containerName
ContainerExists(cs, name) == OutputIs(DockerPs(cs, name, TRUE), name)

\* if (existingPort) { actualHostPort = existingPort; }
RestartPort(existingPort, computed) ==
    IF existingPort # <<>> THEN existingPort[1] ELSE computed

\* faulty variant: builds although the pull succeeded
BuildAlways(pulled) == TRUE

\* if (!pulled) { await this.buildImage(); }
BuildAfterPull(pulled) == ~pulled

\* faulty variant: i <= maxAttempts
LoopOneMore(i) == i <= maxAttempts

\* for (let i = 0; i < maxAttempts; i++)
LoopContinues(i) == i < maxAttempts

\* faulty variant: any answer of the health endpoint counts, OK or not
ProbeAnyAnswer(health) == health # "down"

\* if (response.ok) return;
ProbeOk(health) == health = "ok"

ContainerInfo(name, port) ==
    [kind |-> "info", containerId |-> name, port |-> port,
     status |-> "running", url |-> Url(port)]

NoValue == [kind |-> "none"]

StartFailure(cause) ==
    [kind |-> "throw", message |-> <<"Failed to start container for skill", cause>>]

(***************************************************************************)
(* Execution client: the response of POST /bash/exec and its normalisation *)
(***************************************************************************)
JsonBody(success, out, err, exitCode, error, timeout) ==
    [kind |-> "json", success |-> success, stdout |-> out, stderr |-> err,
     exitCode |-> exitCode, error |-> error, timeout |-> timeout]

\* faulty variant: success: code === 0
ExitResponseCodeOnly(code, k, out, err) ==
    JsonBody(<<code = 0>>, <<out>>, <<err>>, <<code>>, <<>>, <<k>>)

\* the body built by the exit handler of POST /bash/exec
ExitResponse(code, k, out, err) ==
    JsonBody(<<code = 0 /\ ~k>>, <<out>>, <<err>>, <<code>>, <<>>, <<k>>)

\* the body built by the error handler of POST /bash/exec
SpawnErrorResponse(message) ==
    JsonBody(<<FALSE>>, <<>>, <<>>, <<1>>, <<message>>, <<>>)

\* HTTP 400: command missing
BadRequestResponse ==
    JsonBody(<<FALSE>>, <<>>, <<>>, <<>>, <<"Command is required">>, <<>>)

ExecuteResult(success, out, err, exitCode, error, timeout) ==
    [kind |-> "result", success |-> success, stdout |-> out, stderr |-> err,
     exitCode |-> exitCode, error |-> error, timeout |-> timeout]

\* the catch block of executeCommand
ExecuteFailure(cause) ==
    ExecuteResult(FALSE, <<>>, <<>>, 1, <<"Failed to execute command", cause>>, <<>>)

\* faulty variant: a failed command is reported like a transport failure
NormaliseAsFailure(body) ==
    IF body.success = <<TRUE>>
    THEN ExecuteResult(TRUE,
                       IF body.stdout = <<>> THEN <<>> ELSE body.stdout[1],
                       IF body.stderr = <<>> THEN <<>> ELSE body.stderr[1],
                       0, body.error, body.timeout)
    ELSE ExecuteResult(FALSE, <<>>, <<>>, 1, <<"Failed to execute command">>, body.timeout)

\* result.success ?? false, result.stdout || '', result.exitCode ?? 1, ...
Normalise(body) ==
    ExecuteResult(
        IF body.success = <<>> THEN FALSE ELSE body.success[1],
        IF body.stdout = <<>> THEN <<>> ELSE body.stdout[1],
        IF body.stderr = <<>> THEN <<>> ELSE body.stderr[1],
        IF body.exitCode = <<>> \/ body.exitCode[1] = Null THEN 1 ELSE body.exitCode[1],
        body.error,
        body.timeout)

\* faulty variant: a transport or protocol failure escapes executeCommand
ClientOutcomeUncaught(resp) ==
    IF resp.kind = "json" THEN Normalise(resp)
    ELSE [kind |-> "throw", message |-> <<resp.kind>>]

\* what the fetch of executeCommand can meet on the endpoint
ClientOutcome(resp) ==
    IF resp.kind = "json" THEN Normalise(resp) ELSE ExecuteFailure(resp.kind)

\* bodies an execution server answers with (see the exit, error and missing
\* command branches of POST /bash/exec)
ServerBodies ==
    { ExitResponse(0, FALSE, <<"out">>, <<>>),
      ExitResponse(3, FALSE, <<"out">>, <<"err">>),
      ExitResponse(Null, TRUE, <<>>, <<>>),
      SpawnErrorResponse("Command not found or executable missing"),
      BadRequestResponse }

\* what answers a request sent to a host port
Responses(cs, port) ==
    CASE HealthOf(cs, port) = "ok"  -> ServerBodies
      [] HealthOf(cs, port) = "bad" -> {[kind |-> "unparseable"]}
      [] OTHER                      -> {[kind |-> "unreachable"]}

(***************************************************************************)
(* Initial states                                                          *)
(***************************************************************************)
\* ports a container of that name may have been created with
InitPorts(name) ==
    { getAvailablePort(s) : s \in { x \in Skills : \E c \in NameOverrides :
                                        getContainerName(c, x) = name } }
    \cup OtherPorts

InitContainer(name) ==
    {Absent}
    \cup [status : {"stopped"}, port : InitPorts(name), health : {"down"}]
    \cup [status : {"running"}, port : InitPorts(name), health : {"down", "ok"}]

RuntimeOk(cs) ==
    \A n, m \in DOMAIN cs :
        (n # m /\ cs[n].status = "running" /\ cs[m].status = "running")
            => cs[n].port # cs[m].port

\* no caller in S has called anything yet
ClientInitOf(S) ==
    /\ pc = [c \in S |-> "idle"]
    /\ op = [c \in S |-> "none"]
    /\ skillName = [c \in S |-> <<>>]
    /\ hostPort = [c \in S |-> 0]
    /\ actualHostPort = [c \in S |-> 0]
    /\ attempt = [c \in S |-> 0]
    /\ info = [c \in S |-> NoValue]
    /\ result = [c \in S |-> NoValue]
    /\ log = [c \in S |-> <<>>]
    /\ probes = [c \in S |-> 0]
    /\ okProbes = [c \in S |-> 0]
    /\ fetches = [c \in S |-> 0]
    /\ prevSkill = [c \in S |-> <<>>]
    /\ prevInfo = [c \in S |-> NoValue]
    /\ calls = [c \in S |-> 0]

ClientInit == ClientInitOf(Callers)

\* no request has reached the execution server
ExecIdle ==
    /\ request = [kind |-> "none"]
    /\ server = "new"
    /\ child = "none"
    /\ exitStatus = [code |-> Null, signal |-> "none"]
    /\ pipeOut = <<>> /\ pipeErr = <<>>
    /\ written = 0
    /\ stdout = <<>> /\ stderr = <<>>
    /\ killed = FALSE
    /\ procExitCode = Null
    /\ timer = "unset"
    /\ errorPending = FALSE
    /\ signals = 0
    /\ responses = <<>>
    /\ clientResult = NoValue
    /\ httpStatus = <<>>
    /\ termination = "exits"
    /\ descendant = FALSE
    /\ stream = "new"
    /\ events = <<>>
    /\ sKilled = FALSE

\* createServer: nothing tracked, no cleanup running
SessionInit ==
    /\ startedContainers = {}
    /\ taskPc = [s \in Skills |-> "idle"]
    /\ taskOp = [s \in Skills |-> "none"]
    /\ taskLog = [s \in Skills |-> <<>>]
    /\ taskErr = [s \in Skills |-> <<>>]
    /\ cleanups = 0
    /\ cleanupPc = "idle"
    /\ apiCalls = 0
    /\ attempted = {}
    /\ succeeded = {}
    /\ callsSinceCleanup = 0

\* createServer without prewarmDocker: prewarm() is never called
PrewarmOff ==
    /\ prewarmPc = "off"
    /\ prewarmLog = <<>>
    /\ prewarmThrew = FALSE

\* no helper is being evaluated
PureIdle ==
    /\ input = <<>>
    /\ output = <<>>

\* any runtime and any configuration
Configured ==
    /\ ExecIdle
    /\ SessionInit
    /\ PureIdle
    /\ dockerUp \in BOOLEAN
    /\ imageExists \in BOOLEAN
    /\ isCustomImage \in BOOLEAN
    /\ customContainerName \in NameOverrides
    /\ containers \in [AllNames -> UNION { InitContainer(n) : n \in AllNames }]
    /\ \A n \in AllNames : containers[n] \in InitContainer(n)
    /\ \A n \in AllNames \ NamesOf(customContainerName) : containers[n] = Absent
    /\ RuntimeOk(containers)
    \* an unavailable runtime holds nothing that could be observed
    /\ ~dockerUp => (~imageExists /\ \A n \in AllNames : containers[n] = Absent)

\* nothing called yet
Constructed ==
    /\ Configured
    /\ ClientInit

Init ==
    /\ Constructed
    /\ PrewarmOff

(***************************************************************************)
(* Actions of a caller c                                                   *)
(***************************************************************************)
\* a runtime command the caller issued, with what the code made of the answer
Logged(c, cmd, res) ==
    log' = [log EXCEPT ![c] = Append(@, [cmd |-> cmd, res |-> res])]

\* a runtime query: also what the runtime itself reported (`listed`)
LoggedQuery(c, cmd, res, listed) ==
    log' = [log EXCEPT ![c] = Append(@, [cmd |-> cmd, res |-> res, listed |-> listed])]

Name(c) == getContainerName(customContainerName, skillName[c])

\* where a finished startContainer / executeCommand returns to: its caller,
\* the CallTool handler that awaits useSkillTool.execute, or the file helper
\* that awaits executeCommand
Done(c) ==
    IF op[c] = "useSkill" THEN "ct_track"
    ELSE IF op[c] \in {"readFile", "writeFile"} THEN "fh_result"
    ELSE "idle"

\* startContainer returns: to its caller, or into executeCommand
ReturnInfo(c, port) ==
    /\ info' = [info EXCEPT ![c] = ContainerInfo(Name(c), port)]
    /\ IF op[c] = "ensure"
       THEN /\ pc' = [pc EXCEPT ![c] = "idle"]
            /\ result' = [result EXCEPT ![c] = ContainerInfo(Name(c), port)]
       ELSE /\ pc' = [pc EXCEPT ![c] = "ec_fetch"]
            /\ UNCHANGED result

\* faulty variant: executeCommand goes on to send the request although
\* startContainer failed
ThrowStartSwallowed(c, cause) ==
    IF op[c] = "ensure"
    THEN /\ pc' = [pc EXCEPT ![c] = "idle"]
         /\ UNCHANGED info
         /\ result' = [result EXCEPT ![c] = StartFailure(cause)]
    ELSE /\ pc' = [pc EXCEPT ![c] = "ec_fetch"]
         /\ info' = [info EXCEPT ![c] = ContainerInfo(Name(c), hostPort[c])]
         /\ UNCHANGED result

\* faulty variant: a failed step makes startContainer start over
ThrowStartRetried(c, cause) ==
    /\ pc' = [pc EXCEPT ![c] = "sc_running"]
    /\ UNCHANGED <<info, result>>

\* startContainer throws (lines 309-313); executeCommand catches (384-392)
ThrowStart(c, cause) ==
    /\ pc' = [pc EXCEPT ![c] = Done(c)]
    /\ UNCHANGED info
    /\ result' = [result EXCEPT ![c] =
            IF op[c] = "ensure" THEN StartFailure(cause)
            ELSE ExecuteFailure(StartFailure(cause).message)]

\* a caller invokes startContainer(s) or executeCommand(s, options)
Enter(c, o, s) ==
    /\ UNCHANGED <<exVars, seVars>>
    /\ pc[c] = "idle"
    /\ op' = [op EXCEPT ![c] = o]
    /\ skillName' = [skillName EXCEPT ![c] = s]
    /\ pc' = [pc EXCEPT ![c] = "sc_running"]
    /\ calls' = [calls EXCEPT ![c] = @ + 1]
    /\ prevSkill' = [prevSkill EXCEPT ![c] = skillName[c]]
    /\ prevInfo' = [prevInfo EXCEPT ![c] = info[c]]
    /\ info' = [info EXCEPT ![c] = NoValue]
    /\ result' = [result EXCEPT ![c] = NoValue]
    /\ log' = [log EXCEPT ![c] = <<>>]
    /\ probes' = [probes EXCEPT ![c] = 0]
    /\ okProbes' = [okProbes EXCEPT ![c] = 0]
    /\ fetches' = [fetches EXCEPT ![c] = 0]
    /\ hostPort' = [hostPort EXCEPT ![c] = 0]
    /\ actualHostPort' = [actualHostPort EXCEPT ![c] = 0]
    /\ attempt' = [attempt EXCEPT ![c] = 0]
    /\ UNCHANGED <<rtVars, cfgVars>>

\* the calls one caller makes are bounded; it picks the operation and the skill
Call(c) ==
    /\ calls[c] < MaxCalls
    /\ \E o \in {"ensure", "execute"}, s \in Skills : Enter(c, o, s)

\* const isRunning = await this.isContainerRunning(skillName)
CheckRunning(c) ==
    /\ UNCHANGED <<exVars, seVars>>
    /\ pc[c] = "sc_running"
    /\ LET running == isContainerRunning(dockerUp, containers,
                                         customContainerName, skillName[c])
       IN  /\ LoggedQuery(c, "ps", running,
                           dockerUp /\ Name(c) \in DockerPs(containers, Name(c), FALSE))
           /\ IF running
              THEN /\ pc' = [pc EXCEPT ![c] = "sc_fastport"]
                   /\ UNCHANGED hostPort
              ELSE /\ pc' = [pc EXCEPT ![c] = "sc_images"]
                   /\ hostPort' = [hostPort EXCEPT ![c] = getAvailablePort(skillName[c])]
    /\ UNCHANGED <<rtVars, cfgVars, op, skillName, actualHostPort, attempt, info,
                   result, probes, okProbes, fetches, prevSkill, prevInfo, calls>>

\* the fast path: read back the bound port and return
FastPath(c) ==
    /\ UNCHANGED <<exVars, seVars>>
    /\ pc[c] = "sc_fastport"
    /\ LET actualPort == getContainerPort(dockerUp, containers, Name(c))
       IN  /\ Logged(c, "port", actualPort # <<>>)
           /\ hostPort' = [hostPort EXCEPT ![c] = FastPathPort(actualPort, skillName[c])]
           /\ ReturnInfo(c, FastPathPort(actualPort, skillName[c]))
    /\ UNCHANGED <<rtVars, cfgVars, op, skillName, actualHostPort, attempt,
                   probes, okProbes, fetches, prevSkill, prevInfo, calls>>

\* const imageBuilt = await this.isImageBuilt()
CheckImage(c) ==
    /\ UNCHANGED <<exVars, seVars>>
    /\ pc[c] = "sc_images"
    /\ LET imageBuilt == isImageBuilt(dockerUp, imageExists)
       IN  /\ LoggedQuery(c, "images", imageBuilt, imageExists)
           /\ pc' = [pc EXCEPT ![c] = IF imageBuilt THEN "sc_existing" ELSE "sc_pull"]
    /\ UNCHANGED <<rtVars, cfgVars, op, skillName, hostPort, actualHostPort, attempt,
                   info, result, probes, okProbes, fetches, prevSkill, prevInfo, calls>>

\* const pulled = await this.pullImage()
PullImage(c) ==
    /\ UNCHANGED <<exVars, seVars>>
    /\ pc[c] = "sc_pull"
    /\ \E pulled \in (IF dockerUp THEN BOOLEAN ELSE {FALSE}) :
        /\ Logged(c, "pull", pulled)
        /\ imageExists' = (imageExists \/ pulled)
        /\ pc' = [pc EXCEPT ![c] = IF BuildAfterPull(pulled) THEN "sc_build"
                                   ELSE "sc_existing"]
    /\ UNCHANGED <<info, result>>
    /\ UNCHANGED <<dockerUp, containers, cfgVars, op, skillName, hostPort,
                   actualHostPort, attempt, probes, okProbes, fetches,
                   prevSkill, prevInfo, calls>>

\* await this.buildImage()
BuildImage(c) ==
    /\ UNCHANGED <<exVars, seVars>>
    /\ pc[c] = "sc_build"
    /\ \E built \in (IF dockerUp THEN BOOLEAN ELSE {FALSE}) :
        /\ Logged(c, "build", built)
        /\ imageExists' = (imageExists \/ built)
        /\ IF built
           THEN /\ pc' = [pc EXCEPT ![c] = "sc_existing"]
                /\ UNCHANGED <<info, result>>
           ELSE ThrowStart(c, "Failed to build Docker image")
    /\ UNCHANGED <<dockerUp, containers, cfgVars, op, skillName, hostPort,
                   actualHostPort, attempt, probes, okProbes, fetches,
                   prevSkill, prevInfo, calls>>

\* if (!this.isCustomImage) { pull; if (!pulled) build }      (lines 246-254)
PullDefaultImage(c) == ~isCustomImage /\ PullImage(c)
BuildDefaultImage(c) == ~isCustomImage /\ BuildImage(c)
\* else { pull; if (!pulled) build }                          (lines 255-262)
PullCustomImage(c) == isCustomImage /\ PullImage(c)
BuildCustomImage(c) == isCustomImage /\ BuildImage(c)

\* docker ps -a --filter name=...; let actualHostPort = hostPort
CheckExisting(c) ==
    /\ UNCHANGED <<exVars, seVars>>
    /\ pc[c] = "sc_existing"
    /\ IF ~dockerUp
       THEN /\ LoggedQuery(c, "ps-a", FALSE, FALSE)
            /\ ThrowStart(c, "docker ps failed")
            /\ UNCHANGED actualHostPort
       ELSE /\ LoggedQuery(c, "ps-a", ContainerExists(containers, Name(c)),
                            Name(c) \in DockerPs(containers, Name(c), TRUE))
            /\ actualHostPort' = [actualHostPort EXCEPT ![c] = hostPort[c]]
            /\ pc' = [pc EXCEPT ![c] = IF ContainerExists(containers, Name(c))
                                       THEN "sc_start" ELSE "sc_run"]
            /\ UNCHANGED <<info, result>>
    /\ UNCHANGED <<rtVars, cfgVars, op, skillName, hostPort, attempt,
                   probes, okProbes, fetches, prevSkill, prevInfo, calls>>

\* await execAsync(`docker start ${containerName}`)
StartExisting(c) ==
    /\ UNCHANGED <<exVars, seVars>>
    /\ pc[c] = "sc_start"
    /\ Logged(c, "start", DockerStartOk(dockerUp, containers, Name(c)))
    /\ IF DockerStartOk(dockerUp, containers, Name(c))
       THEN /\ containers' = DockerStarted(containers, Name(c))
            /\ pc' = [pc EXCEPT ![c] = "sc_port"]
            /\ UNCHANGED <<info, result>>
       ELSE /\ UNCHANGED containers
            /\ ThrowStart(c, "docker start failed")
    /\ UNCHANGED <<dockerUp, imageExists, cfgVars, op, skillName, hostPort,
                   actualHostPort, attempt, probes, okProbes, fetches,
                   prevSkill, prevInfo, calls>>

\* const existingPort = await this.getContainerPort(containerName)
ReadPort(c) ==
    /\ UNCHANGED <<exVars, seVars>>
    /\ pc[c] = "sc_port"
    /\ LET existingPort == getContainerPort(dockerUp, containers, Name(c))
       IN  /\ Logged(c, "port", existingPort # <<>>)
           /\ actualHostPort' = [actualHostPort EXCEPT ![c] =
                                    RestartPort(existingPort, actualHostPort[c])]
    /\ pc' = [pc EXCEPT ![c] = "sc_wait"]
    /\ UNCHANGED <<rtVars, cfgVars, op, skillName, hostPort, attempt, info, result,
                   probes, okProbes, fetches, prevSkill, prevInfo, calls>>

\* await execAsync(dockerRunCmd)
RunNew(c) ==
    /\ UNCHANGED <<exVars, seVars>>
    /\ pc[c] = "sc_run"
    /\ Logged(c, "run", DockerRunOk(dockerUp, containers, Name(c), hostPort[c]))
    /\ containers' = DockerRan(dockerUp, containers, Name(c), hostPort[c])
    /\ IF DockerRunOk(dockerUp, containers, Name(c), hostPort[c])
       THEN /\ pc' = [pc EXCEPT ![c] = "sc_wait"]
            /\ UNCHANGED <<info, result>>
       ELSE ThrowStart(c, "docker run failed")
    /\ UNCHANGED <<dockerUp, imageExists, cfgVars, op, skillName, hostPort,
                   actualHostPort, attempt, probes, okProbes, fetches,
                   prevSkill, prevInfo, calls>>

\* waitForContainer: one iteration of the loop (a probe, then the 1 s sleep),
\* and the throw that follows the last iteration
WaitForContainer(c) ==
    /\ UNCHANGED <<exVars, seVars>>
    /\ pc[c] = "sc_wait"
    /\ LoopContinues(attempt[c])
    /\ probes' = [probes EXCEPT ![c] = @ + 1]
    /\ IF ProbeOk(HealthOf(containers, actualHostPort[c]))
       THEN /\ okProbes' = [okProbes EXCEPT ![c] = @ + 1]
            /\ UNCHANGED attempt
            /\ ReturnInfo(c, actualHostPort[c])
       ELSE /\ UNCHANGED okProbes
            /\ attempt' = [attempt EXCEPT ![c] = @ + 1]
            /\ IF LoopContinues(attempt[c] + 1)
               THEN UNCHANGED <<pc, info, result>>
               ELSE ThrowStart(c, "Container failed to become healthy")
    /\ UNCHANGED <<rtVars, cfgVars, op, skillName, hostPort, actualHostPort,
                   log, fetches, prevSkill, prevInfo, calls>>

\* executeCommand: fetch(`${containerInfo.url}/bash/exec`), response.json(),
\* normalisation; any throw is caught
FetchExec(c) ==
    /\ UNCHANGED <<exVars, seVars>>
    /\ pc[c] = "ec_fetch"
    /\ fetches' = [fetches EXCEPT ![c] = @ + 1]
    /\ \E resp \in Responses(containers, info[c].port) :
        /\ Logged(c, "fetch", resp.kind = "json")
        /\ result' = [result EXCEPT ![c] = ClientOutcome(resp)]
    /\ pc' = [pc EXCEPT ![c] = Done(c)]
    /\ UNCHANGED <<rtVars, cfgVars, op, skillName, hostPort, actualHostPort, attempt,
                   info, probes, okProbes, prevSkill, prevInfo, calls>>

(***************************************************************************)
(* Actions of the environment                                              *)
(***************************************************************************)
\* the server inside a running container starts listening / becomes healthy
ServerProgress ==
    /\ \E n \in DOMAIN containers, h \in {"bad", "ok"} :
        /\ containers[n].status = "running"
        /\ containers[n].health # "ok"
        /\ containers[n].health # h
        /\ containers' = [containers EXCEPT ![n].health = h]
    /\ UNCHANGED <<dockerUp, imageExists, cfgVars, clVars, exVars, seVars>>

CallerStep(c) ==
    \/ Call(c)
    \/ CheckRunning(c)
    \/ FastPath(c)
    \/ CheckImage(c)
    \/ PullDefaultImage(c)
    \/ BuildDefaultImage(c)
    \/ PullCustomImage(c)
    \/ BuildCustomImage(c)
    \/ CheckExisting(c)
    \/ StartExisting(c)
    \/ ReadPort(c)
    \/ RunNew(c)
    \/ WaitForContainer(c)
    \/ FetchExec(c)

Next ==
    \/ \E c \in Callers : CallerStep(c)
    \/ ServerProgress

Spec == Init /\ [][Next]_vars

(***************************************************************************)
(* The MCP server: the use-skill tool, the session set and cleanup         *)
(***************************************************************************)
\* faulty variant: the version check is taken to succeed
isDockerAvailableAlways(up) == TRUE

\* `docker --version` succeeds
isDockerAvailable(up) == up

\* the CallToolResult of UseSkillTool.execute
ToolResult(isError, text) == [kind |-> "tool", isError |-> isError, text |-> text]

DockerUnavailable == ToolResult(TRUE, "Error: Docker is not available")

\* isError: !result.success
FormatResult(r) == ToolResult(~r.success, r)

\* `docker stop <name>`: fails when there is no such container
DockerStopOk(up, cs, name) == up /\ cs[name].status # "absent"

DockerStopped(cs, name) ==
    IF cs[name].status = "running"
    THEN [cs EXCEPT ![name] = [@ EXCEPT !.status = "stopped", !.health = "down"]]
    ELSE cs

\* `docker rm <name>`: fails when there is no such container and when the
\* container is running
DockerRmOk(up, cs, name) == up /\ cs[name].status = "stopped"

DockerRemoved(cs, name) == [cs EXCEPT ![name] = Absent]

TaskRunning(s) == taskPc[s] \notin {"idle", "done"}

\* no call and no stop / remove is in progress
Quiet ==
    /\ \A c \in DOMAIN pc : pc[c] = "idle"
    /\ \A s \in DOMAIN taskPc : ~TaskRunning(s)
    /\ cleanupPc # "running"

\* faulty variant: createServer awaits prewarm() before it returns
ServingAfterPrewarm(pw) == pw \in {"off", "done"}

\* the CallTool handler is registered and createServer has returned:
\* prewarm() is started but not awaited
Serving(pw) == pw # "new"

\* the CallTool request handler receives a use-skill request
CallTool(c) ==
    /\ Serving(prewarmPc)
    /\ Quiet
    /\ calls[c] < MaxCalls
    /\ \E s \in Skills :
        /\ skillName' = [skillName EXCEPT ![c] = s]
        /\ attempted' = attempted \cup {s}
    /\ callsSinceCleanup' = callsSinceCleanup + 1
    /\ op' = [op EXCEPT ![c] = "useSkill"]
    /\ pc' = [pc EXCEPT ![c] = "ct_docker"]
    /\ calls' = [calls EXCEPT ![c] = @ + 1]
    /\ prevSkill' = [prevSkill EXCEPT ![c] = skillName[c]]
    /\ prevInfo' = [prevInfo EXCEPT ![c] = info[c]]
    /\ info' = [info EXCEPT ![c] = NoValue]
    /\ result' = [result EXCEPT ![c] = NoValue]
    /\ log' = [log EXCEPT ![c] = <<>>]
    /\ probes' = [probes EXCEPT ![c] = 0]
    /\ okProbes' = [okProbes EXCEPT ![c] = 0]
    /\ fetches' = [fetches EXCEPT ![c] = 0]
    /\ hostPort' = [hostPort EXCEPT ![c] = 0]
    /\ actualHostPort' = [actualHostPort EXCEPT ![c] = 0]
    /\ attempt' = [attempt EXCEPT ![c] = 0]
    /\ UNCHANGED <<rtVars, cfgVars, exVars>>
    /\ UNCHANGED <<startedContainers, taskPc, taskOp, taskLog, taskErr, cleanups,
                   apiCalls, succeeded>>

\* UseSkillTool.execute: const dockerAvailable = await isDockerAvailable()
CheckDocker(c) ==
    /\ pc[c] = "ct_docker"
    /\ Logged(c, "version", isDockerAvailable(dockerUp))
    /\ IF isDockerAvailable(dockerUp)
       THEN /\ pc' = [pc EXCEPT ![c] = "sc_running"]
            /\ UNCHANGED result
       ELSE /\ pc' = [pc EXCEPT ![c] = "ct_track"]
            /\ result' = [result EXCEPT ![c] = DockerUnavailable]
    /\ UNCHANGED <<rtVars, cfgVars, exVars, seVars>>
    /\ UNCHANGED <<op, skillName, hostPort, actualHostPort, attempt, info,
                   probes, okProbes, fetches, prevSkill, prevInfo, calls>>

\* UseSkillTool.execute returns its CallToolResult; the CallTool handler adds
\* the skill name to startedContainers and returns the result
Track(c) ==
    /\ pc[c] = "ct_track"
    /\ LET r == IF result[c].kind = "tool" THEN result[c] ELSE FormatResult(result[c])
       IN  /\ result' = [result EXCEPT ![c] = r]
           /\ succeeded' = IF r.isError THEN succeeded ELSE succeeded \cup {skillName[c]}
    /\ startedContainers' = IF skillName[c] # <<>>
                            THEN startedContainers \cup {skillName[c]}
                            ELSE startedContainers
    /\ pc' = [pc EXCEPT ![c] = "idle"]
    \* the locals of the finished call, and what was recorded about it, are gone
    /\ hostPort' = [hostPort EXCEPT ![c] = 0]
    /\ actualHostPort' = [actualHostPort EXCEPT ![c] = 0]
    /\ attempt' = [attempt EXCEPT ![c] = 0]
    /\ info' = [info EXCEPT ![c] = NoValue]
    /\ log' = [log EXCEPT ![c] = <<>>]
    /\ probes' = [probes EXCEPT ![c] = 0]
    /\ okProbes' = [okProbes EXCEPT ![c] = 0]
    /\ fetches' = [fetches EXCEPT ![c] = 0]
    /\ prevSkill' = [prevSkill EXCEPT ![c] = <<>>]
    /\ prevInfo' = [prevInfo EXCEPT ![c] = NoValue]
    /\ UNCHANGED <<rtVars, cfgVars, exVars>>
    /\ UNCHANGED <<op, skillName, calls>>
    /\ UNCHANGED <<taskPc, taskOp, taskLog, taskErr, cleanups, apiCalls, attempted,
                   callsSinceCleanup>>

\* cleanup(): one task per tracked skill, all started before any of them
\* continues (Array.from(startedContainers).map(async ...))
Cleanup ==
    /\ Quiet
    /\ cleanups < MaxCleanups
    /\ cleanups' = cleanups + 1
    /\ cleanupPc' = IF startedContainers = {} THEN "returned" ELSE "running"
    /\ callsSinceCleanup' = 0
    /\ taskLog' = [s \in Skills |-> <<>>]
    /\ taskErr' = [s \in Skills |-> <<>>]
    /\ IF startedContainers = {}
       THEN /\ taskPc' = [s \in Skills |-> "idle"]
            /\ taskOp' = [s \in Skills |-> "none"]
       ELSE /\ taskPc' = [s \in Skills |->
                            IF s \in startedContainers THEN "stop_ps" ELSE "idle"]
            /\ taskOp' = [s \in Skills |->
                            IF s \in startedContainers THEN "cleanup" ELSE "none"]
    /\ UNCHANGED <<rtVars, isCustomImage, customContainerName, pwVars, pfVars,
                   clVars, exVars>>
    /\ UNCHANGED <<startedContainers, apiCalls, attempted, succeeded>>

\* faulty variant: the task has no try / catch, a failed stop or remove
\* rejects its promise
TaskRejectsUncaught(err) == err # <<>>

\* the task catches the error of stopContainer / removeContainer and logs
\* it: its promise is always fulfilled
TaskRejects(err) == FALSE

\* await Promise.all(cleanupPromises): settled as soon as one task rejects,
\* and else when every task is fulfilled
CleanupReturn ==
    /\ cleanupPc = "running"
    /\ LET tasks == { s \in DOMAIN taskPc : taskOp[s] = "cleanup" }
           rejected == { s \in tasks : taskPc[s] = "done" /\ TaskRejects(taskErr[s]) }
       IN  IF rejected # {}
           THEN cleanupPc' = "threw"
           ELSE /\ \A s \in tasks : taskPc[s] = "done"
                /\ cleanupPc' = "returned"
    /\ UNCHANGED <<rtVars, isCustomImage, customContainerName, pwVars, pfVars,
                   clVars, exVars, seVars>>

\* a direct call of sandboxService.stopContainer(s)
StopContainerCall(s) ==
    /\ Quiet
    /\ apiCalls < MaxApiCalls
    /\ apiCalls' = apiCalls + 1
    /\ taskPc' = [taskPc EXCEPT ![s] = "stop_ps"]
    /\ taskOp' = [taskOp EXCEPT ![s] = "stop"]
    /\ taskLog' = [taskLog EXCEPT ![s] = <<>>]
    /\ taskErr' = [taskErr EXCEPT ![s] = <<>>]
    /\ UNCHANGED <<rtVars, cfgVars, clVars, exVars>>
    /\ UNCHANGED <<startedContainers, cleanups, attempted, succeeded,
                   callsSinceCleanup>>

\* a direct call of sandboxService.removeContainer(s)
RemoveContainerCall(s) ==
    /\ Quiet
    /\ apiCalls < MaxApiCalls
    /\ apiCalls' = apiCalls + 1
    /\ taskPc' = [taskPc EXCEPT ![s] = "rm_ps"]
    /\ taskOp' = [taskOp EXCEPT ![s] = "remove"]
    /\ taskLog' = [taskLog EXCEPT ![s] = <<>>]
    /\ taskErr' = [taskErr EXCEPT ![s] = <<>>]
    /\ UNCHANGED <<rtVars, cfgVars, clVars, exVars>>
    /\ UNCHANGED <<startedContainers, cleanups, attempted, succeeded,
                   callsSinceCleanup>>

\* stopContainer called by removeContainer (pc rm_...) or on its own
InRemove(s) == taskPc[s] \in {"rm_ps", "rm_stop"}

\* where a task continues when stopContainer returns
AfterStop(s) ==
    IF InRemove(s) THEN "rm_rm"
    ELSE IF taskOp[s] = "cleanup" THEN "rm_ps"
    ELSE "done"

TaskLogged(s, entry) == taskLog' = [taskLog EXCEPT ![s] = Append(@, entry)]

\* stopContainer: const isRunning = await this.isContainerRunning(skillName)
StopQuery(s) ==
    /\ taskPc[s] \in {"stop_ps", "rm_ps"}
    /\ LET name == getContainerName(customContainerName, s)
           isRunning == isContainerRunning(dockerUp, containers, customContainerName, s)
       IN  /\ TaskLogged(s, [cmd |-> "ps", res |-> isRunning, inRemove |-> InRemove(s),
                             listed |-> dockerUp /\ containers[name].status = "running"])
           /\ taskPc' = [taskPc EXCEPT ![s] =
                            IF ~isRunning THEN AfterStop(s)
                            ELSE IF InRemove(s) THEN "rm_stop" ELSE "stop_stop"]
    /\ UNCHANGED <<rtVars, cfgVars, clVars, exVars>>
    /\ UNCHANGED <<startedContainers, taskOp, taskErr, cleanups, apiCalls,
                   attempted, succeeded, callsSinceCleanup>>

\* stopContainer: await execAsync(`docker stop ${containerName}`); a failure
\* is rethrown, by removeContainer too
StopIssue(s) ==
    /\ taskPc[s] \in {"stop_stop", "rm_stop"}
    /\ LET name == getContainerName(customContainerName, s)
           ok == DockerStopOk(dockerUp, containers, name)
       IN  /\ TaskLogged(s, [cmd |-> "stop", res |-> ok, inRemove |-> InRemove(s)])
           /\ containers' = IF ok THEN DockerStopped(containers, name) ELSE containers
           /\ taskPc' = [taskPc EXCEPT ![s] = IF ok THEN AfterStop(s) ELSE "done"]
           /\ taskErr' = [taskErr EXCEPT ![s] =
                            IF ok THEN @
                            ELSE IF InRemove(s) THEN <<"Failed to remove container">>
                            ELSE <<"Failed to stop container">>]
    /\ UNCHANGED <<dockerUp, imageExists, cfgVars, clVars, exVars>>
    /\ UNCHANGED <<startedContainers, taskOp, cleanups, apiCalls, attempted, succeeded,
                   callsSinceCleanup>>

\* removeContainer: await execAsync(`docker rm ${containerName}`)
RemoveIssue(s) ==
    /\ taskPc[s] = "rm_rm"
    /\ LET name == getContainerName(customContainerName, s)
           ok == DockerRmOk(dockerUp, containers, name)
       IN  /\ TaskLogged(s, [cmd |-> "rm", res |-> ok, inRemove |-> TRUE,
                             status |-> containers[name].status])
           /\ containers' = IF ok THEN DockerRemoved(containers, name) ELSE containers
           /\ taskErr' = [taskErr EXCEPT ![s] =
                            IF ok THEN @ ELSE <<"Failed to remove container">>]
    /\ taskPc' = [taskPc EXCEPT ![s] = "done"]
    /\ UNCHANGED <<dockerUp, imageExists, cfgVars, clVars, exVars>>
    /\ UNCHANGED <<startedContainers, taskOp, cleanups, apiCalls, attempted, succeeded,
                   callsSinceCleanup>>

ToolStep(c) ==
    \/ CallTool(c)
    \/ CheckDocker(c)
    \/ CheckRunning(c)
    \/ FastPath(c)
    \/ CheckImage(c)
    \/ PullDefaultImage(c)
    \/ BuildDefaultImage(c)
    \/ PullCustomImage(c)
    \/ BuildCustomImage(c)
    \/ CheckExisting(c)
    \/ StartExisting(c)
    \/ ReadPort(c)
    \/ RunNew(c)
    \/ WaitForContainer(c)
    \/ FetchExec(c)
    \/ Track(c)

TaskStep(s) ==
    \/ StopContainerCall(s)
    \/ RemoveContainerCall(s)
    \/ StopQuery(s)
    \/ StopIssue(s)
    \/ RemoveIssue(s)

NextSession ==
    \/ \E c \in Callers : ToolStep(c)
    \/ \E s \in Skills : TaskStep(s)
    \/ Cleanup
    \/ CleanupReturn
    \/ ServerProgress

\* a session that starts on a runtime holding no container of these names
InitSession ==
    /\ Init
    /\ \A n \in AllNames : containers[n] = Absent

SpecSession == InitSession /\ [][NextSession]_vars

(***************************************************************************)
(* Execution server: the request, the child process and its events         *)
(***************************************************************************)
\* "ls"
SomeCommand == <<108, 115>>

\* ""
EmptyCommand == <<>>

Requests ==
    { [kind |-> "garbage"],
      [kind |-> "json", command |-> <<>>],
      [kind |-> "json", command |-> <<EmptyCommand>>],
      [kind |-> "json", command |-> <<SomeCommand>>] }

ExitCodes == {0, 3}
ExitSignals == {"SIGTERM", "SIGKILL"}
ExitStatuses ==
    [code : ExitCodes, signal : {"none"}] \cup [code : {Null}, signal : ExitSignals]

\* what the command does: it ends by itself, it runs until it receives the
\* termination signal, or it ignores that signal and runs on
Terminations == {"exits", "onSignal", "never"}

\* faulty variant: if (command === undefined)
CommandUndefined(command) == command = <<>>

\* if (!command): the body has no command (<<>>), or an empty one
CommandMissing(command) == command = <<>> \/ command[1] = EmptyCommand

\* the request never reaches spawn
Rejected(req) == req.kind # "json" \/ CommandMissing(req.command)

\* the variables of the SandboxService callers, which no request handler touches
svVars == <<rtVars, cfgVars, clVars, seVars>>

\* spawn('sh', ['-c', command], ...) followed by setTimeout(..., timeout)
Spawn ==
    /\ \E spawned \in BOOLEAN, t \in Terminations, d \in BOOLEAN :
        /\ child' = IF spawned THEN "running" ELSE "none"
        /\ errorPending' = ~spawned
        /\ termination' = IF spawned THEN t ELSE "exits"
        /\ descendant' = (spawned /\ d)
    /\ timer' = "set"
    /\ UNCHANGED <<request, exitStatus, pipeOut, pipeErr, written, procExitCode, signals>>

\* the timeout expires; `kills` handlers call proc.kill('SIGTERM')
TimerFires(kills) ==
    /\ timer = "set"
    /\ ~errorPending
    /\ timer' = "fired"
    /\ signals' = signals + kills
    /\ UNCHANGED <<request, child, exitStatus, pipeOut, pipeErr, written, procExitCode,
                   errorPending, termination, descendant>>

\* the child ends with status st: Node sets proc.exitCode and emits 'exit';
\* every exit handler starts with clearTimeout(timeoutId)
ChildExits(st) ==
    /\ child = "running"
    /\ child' = "exited"
    /\ exitStatus' = st
    /\ procExitCode' = st.code
    /\ timer' = IF timer = "set" THEN "cleared" ELSE timer
    /\ UNCHANGED <<request, pipeOut, pipeErr, written, errorPending, signals,
                   termination, descendant>>

\* the child could not be spawned: Node emits 'error' on the next tick;
\* every error handler starts with clearTimeout(timeoutId)
SpawnFails ==
    /\ errorPending
    /\ errorPending' = FALSE
    /\ timer' = IF timer = "set" THEN "cleared" ELSE timer
    /\ UNCHANGED <<request, child, exitStatus, pipeOut, pipeErr, written, procExitCode,
                   signals, termination, descendant>>

\* a 'data' event hands the oldest undelivered chunk to the handlers
StdoutDelivers ==
    /\ pipeOut # <<>>
    /\ pipeOut' = Tail(pipeOut)
    /\ UNCHANGED <<request, child, exitStatus, pipeErr, written, procExitCode, timer,
                   errorPending, signals, termination, descendant>>

StderrDelivers ==
    /\ pipeErr # <<>>
    /\ pipeErr' = Tail(pipeErr)
    /\ UNCHANGED <<request, child, exitStatus, pipeOut, written, procExitCode, timer,
                   errorPending, signals, termination, descendant>>

\* the child writes a chunk to its stdout or stderr
ChildWrites ==
    /\ child = "running"
    /\ written < MaxChunks
    /\ written' = written + 1
    /\ \/ pipeOut' = Append(pipeOut, "o") /\ UNCHANGED pipeErr
       \/ pipeErr' = Append(pipeErr, "e") /\ UNCHANGED pipeOut
    /\ UNCHANGED <<request, child, exitStatus, procExitCode, timer, errorPending,
                   signals, termination, descendant>>
    /\ UNCHANGED <<bfVars, stVars, svVars>>

\* the background process that held the child's pipes ends
DescendantExits ==
    /\ descendant
    /\ descendant' = FALSE
    /\ UNCHANGED <<request, child, exitStatus, pipeOut, pipeErr, written, procExitCode,
                   timer, errorPending, signals, termination>>
    /\ UNCHANGED <<bfVars, stVars, svVars>>

\* Node emits 'close' once the process has ended (or was never spawned) and
\* its stdio streams have ended
StdioClosed ==
    /\ child = "exited" \/ (child = "none" /\ timer # "unset" /\ ~errorPending)
    /\ pipeOut = <<>> /\ pipeErr = <<>>
    /\ ~descendant

\* the child is going to end: by itself, or because it was signalled
WillExit ==
    \/ termination = "exits"
    \/ termination = "onSignal" /\ signals > 0

(***************************************************************************)
(* Execution server: POST /bash/exec                                       *)
(***************************************************************************)
\* HTTP 500: the body of the request could not be read
ServerErrorResponse ==
    JsonBody(<<FALSE>>, <<>>, <<>>, <<>>, <<"Unexpected token">>, <<>>)

\* faulty variant: proc.exitCode !== null
ShouldKillInverted(k, exitCode) == ~k /\ exitCode # Null

\* if (!killed && proc.exitCode === null)
ShouldKill(k, exitCode) == ~k /\ exitCode = Null

\* resolve(response): every call is recorded
Resolved(rs, body) == Append(rs, body)

\* faulty variant: every resolve(response) sends a response
SentEveryResolve(rs) == rs

\* the responses the route sends for the bodies passed to resolve: the
\* handler returns one Promise<Response>, which the first call settles
Sent(rs) == IF rs = <<>> THEN <<>> ELSE <<rs[1]>>

\* c.json(body, status): the status defaults to 200
Answered(body, status) ==
    /\ responses' = Resolved(responses, body)
    /\ httpStatus' = Append(httpStatus, status)

InitExec ==
    /\ request \in Requests
    /\ server = "new"
    /\ child = "none"
    /\ exitStatus = [code |-> Null, signal |-> "none"]
    /\ pipeOut = <<>> /\ pipeErr = <<>>
    /\ written = 0
    /\ stdout = <<>> /\ stderr = <<>>
    /\ killed = FALSE
    /\ procExitCode = Null
    /\ timer = "unset"
    /\ errorPending = FALSE
    /\ signals = 0
    /\ responses = <<>>
    /\ clientResult = NoValue
    /\ httpStatus = <<>>
    /\ termination = "exits"
    /\ descendant = FALSE
    /\ stream = "new"
    /\ events = <<>>
    /\ sKilled = FALSE
    /\ dockerUp = FALSE /\ imageExists = FALSE
    /\ isCustomImage = FALSE /\ customContainerName = <<>>
    /\ containers = [n \in AllNames |-> Absent]
    /\ ClientInit
    /\ SessionInit
    /\ PrewarmOff
    /\ PureIdle

\* the handler up to the Promise: parse the body, reject a missing command,
\* (spawn the child, arm the timer,) register the handlers
BufferedAccept ==
    /\ server = "new"
    /\ IF request.kind # "json"
       THEN /\ Answered(ServerErrorResponse, 500)
            /\ server' = "closed"
       ELSE IF CommandMissing(request.command)
       THEN /\ Answered(BadRequestResponse, 400)
            /\ server' = "closed"
       ELSE /\ server' = "waiting"
            /\ UNCHANGED <<responses, httpStatus>>
    /\ UNCHANGED <<stdout, stderr, killed, clientResult>>

\* proc.stdout.on('data', ...)
BufferedStdout ==
    /\ server = "waiting"
    /\ pipeOut # <<>>
    /\ stdout' = Append(stdout, Head(pipeOut))
    /\ UNCHANGED <<server, stderr, killed, responses, httpStatus, clientResult>>

\* proc.stderr.on('data', ...)
BufferedStderr ==
    /\ server = "waiting"
    /\ pipeErr # <<>>
    /\ stderr' = Append(stderr, Head(pipeErr))
    /\ UNCHANGED <<server, stdout, killed, responses, httpStatus, clientResult>>

\* the setTimeout callback
BufferedTimeout ==
    /\ server = "waiting"
    /\ killed' = (killed \/ ShouldKill(killed, procExitCode))
    /\ UNCHANGED <<server, stdout, stderr, responses, httpStatus, clientResult>>

\* proc.on('exit', (code) => ...)
BufferedExit(st) ==
    /\ server = "waiting"
    /\ Answered(ExitResponse(st.code, killed, stdout, stderr), 200)
    /\ UNCHANGED <<server, stdout, stderr, killed, clientResult>>

\* error.message of the 'error' event when the child could not be spawned
SpawnErrors ==
    { <<"spawn", "sh", "ENOENT">>,
      <<"spawn", "sh", "EACCES">>,
      <<"spawn", "sh", "EAGAIN">> }

\* error.message.includes(code)
Includes(message, code) == \E i \in 1..Len(message) : message[i] = code

\* the message the error handler answers with (up to the name of the command)
ErrorMessage(message) ==
    IF Includes(message, "ENOENT") THEN "Command not found or executable missing"
    ELSE IF Includes(message, "EACCES") THEN "Permission denied executing"
    ELSE "Failed to execute command"

\* proc.on('error', ...)
BufferedError ==
    /\ server = "waiting"
    /\ \E error \in SpawnErrors :
        Answered(SpawnErrorResponse(ErrorMessage(error)), 200)
    /\ UNCHANGED <<server, stdout, stderr, killed, clientResult>>

Accept ==
    /\ BufferedAccept
    /\ IF Rejected(request) THEN UNCHANGED chVars ELSE Spawn
    /\ UNCHANGED <<stVars, svVars>>

OnStdoutData == BufferedStdout /\ StdoutDelivers /\ UNCHANGED <<stVars, svVars>>

OnStderrData == BufferedStderr /\ StderrDelivers /\ UNCHANGED <<stVars, svVars>>

\* a queued 'error' event (process.nextTick) runs before any timer
OnTimeout ==
    /\ BufferedTimeout
    /\ TimerFires(IF ShouldKill(killed, procExitCode) THEN 1 ELSE 0)
    /\ UNCHANGED <<stVars, svVars>>

\* the child ends (by itself, in answer to the SIGTERM, or killed by another
\* signal) and the exit handler runs
OnExit ==
    /\ \E st \in ExitStatuses : ChildExits(st) /\ BufferedExit(st)
    /\ UNCHANGED <<stVars, svVars>>

OnError == BufferedError /\ SpawnFails /\ UNCHANGED <<stVars, svVars>>

\* the HTTP response reaches executeCommand, which normalises it
ClientReceives ==
    /\ Sent(responses) # <<>>
    /\ clientResult = NoValue
    /\ clientResult' = ClientOutcome(Sent(responses)[1])
    /\ UNCHANGED <<server, stdout, stderr, killed, responses, httpStatus>>
    /\ UNCHANGED <<chVars, stVars, svVars>>

NextExec ==
    \/ Accept
    \/ ChildWrites
    \/ DescendantExits
    \/ OnStdoutData
    \/ OnStderrData
    \/ OnTimeout
    \/ OnExit
    \/ OnError
    \/ ClientReceives

SpecExec == InitExec /\ [][NextExec]_vars

\* the event loop runs every handler whose event is pending, timers expire,
\* and a child that is going to end does end
FairExec ==
    /\ WF_vars(Accept)
    /\ WF_vars(OnStdoutData)
    /\ WF_vars(OnStderrData)
    /\ WF_vars(OnTimeout)
    /\ WF_vars(OnError)
    /\ WF_vars(ClientReceives)
    /\ WF_vars(WillExit /\ OnExit)

SpecExecLive == SpecExec /\ FairExec

(***************************************************************************)
(* Execution server: POST /bash (streaming)                                *)
(***************************************************************************)
StartEvent == [type |-> "start"]

OutputEvent(type, data) == [type |-> type, data |-> data]

TimeoutEvent == [type |-> "timeout"]

\* faulty variant: the exit event never reports the timeout
ExitEventNoFlag(code, signal, k) ==
    [type |-> "exit", exitCode |-> code, signal |-> signal, killed |-> FALSE]

\* { type: 'exit', exitCode: code, signal, killed, message, timestamp }
ExitEvent(code, signal, k) ==
    [type |-> "exit", exitCode |-> code, signal |-> signal, killed |-> k]

ErrorEvent(message) == [type |-> "error", message |-> message]

\* if (!killed && proc.exitCode === null), in the timer of POST /bash
StreamShouldKill(k, exitCode) == ~k /\ exitCode = Null

\* await stream.write(JSON.stringify(event) + '\n')
Written(event) == events' = Append(events, event)

\* the callback of stream(c, ...) up to the Promise: parse the body, reject a
\* missing command, write the start event, (spawn, arm the timer,) register
\* the handlers
StreamingAccept ==
    /\ stream = "new"
    /\ IF request.kind # "json"
       THEN /\ Written(ErrorEvent("Unexpected token"))
            /\ stream' = "closed"
       ELSE IF CommandMissing(request.command)
       THEN /\ Written(ErrorEvent("Command is required"))
            /\ stream' = "closed"
       ELSE /\ Written(StartEvent)
            /\ stream' = "waiting"
    /\ UNCHANGED sKilled

\* proc.stdout.on('data', ...)
StreamingStdout ==
    /\ stream = "waiting"
    /\ pipeOut # <<>>
    /\ Written(OutputEvent("stdout", Head(pipeOut)))
    /\ UNCHANGED <<stream, sKilled>>

\* proc.stderr.on('data', ...)
StreamingStderr ==
    /\ stream = "waiting"
    /\ pipeErr # <<>>
    /\ Written(OutputEvent("stderr", Head(pipeErr)))
    /\ UNCHANGED <<stream, sKilled>>

\* the setTimeout callback
StreamingTimeout ==
    /\ stream = "waiting"
    /\ IF StreamShouldKill(sKilled, procExitCode)
       THEN /\ sKilled' = TRUE
            /\ Written(TimeoutEvent)
       ELSE UNCHANGED <<sKilled, events>>
    /\ UNCHANGED stream

\* proc.on('exit', async (code, signal) => ...)
StreamingExit(st) ==
    /\ stream = "waiting"
    /\ Written(ExitEvent(st.code, st.signal, sKilled))
    /\ UNCHANGED <<stream, sKilled>>

\* proc.on('error', ...)
StreamingError ==
    /\ stream = "waiting"
    /\ \E message \in {"Command not found or executable missing",
                       "Permission denied executing",
                       "Failed to execute command"} :
        Written(ErrorEvent(message))
    /\ UNCHANGED <<stream, sKilled>>

StreamAccept ==
    /\ StreamingAccept
    /\ IF Rejected(request) THEN UNCHANGED chVars ELSE Spawn
    /\ UNCHANGED <<bfVars, svVars>>

StreamOnStdoutData == StreamingStdout /\ StdoutDelivers /\ UNCHANGED <<bfVars, svVars>>

StreamOnStderrData == StreamingStderr /\ StderrDelivers /\ UNCHANGED <<bfVars, svVars>>

StreamOnTimeout ==
    /\ StreamingTimeout
    /\ TimerFires(IF StreamShouldKill(sKilled, procExitCode) THEN 1 ELSE 0)
    /\ UNCHANGED <<bfVars, svVars>>

StreamOnExit ==
    /\ \E st \in ExitStatuses : ChildExits(st) /\ StreamingExit(st)
    /\ UNCHANGED <<bfVars, svVars>>

StreamOnError == StreamingError /\ SpawnFails /\ UNCHANGED <<bfVars, svVars>>

\* proc.on('close', () => resolve()): the callback returns and the response
\* stream is closed
StreamOnClose ==
    /\ stream = "waiting"
    /\ StdioClosed
    /\ stream' = "closed"
    /\ UNCHANGED <<events, sKilled>>
    /\ UNCHANGED <<chVars, bfVars, svVars>>

NextStream ==
    \/ StreamAccept
    \/ ChildWrites
    \/ DescendantExits
    \/ StreamOnStdoutData
    \/ StreamOnStderrData
    \/ StreamOnTimeout
    \/ StreamOnExit
    \/ StreamOnError
    \/ StreamOnClose

SpecStream == InitExec /\ [][NextStream]_vars

FairStream ==
    /\ WF_vars(StreamAccept)
    /\ WF_vars(StreamOnStdoutData)
    /\ WF_vars(StreamOnStderrData)
    /\ WF_vars(StreamOnTimeout)
    /\ WF_vars(StreamOnError)
    /\ WF_vars(StreamOnClose)
    /\ WF_vars(WillExit /\ StreamOnExit)

SpecStreamLive == SpecStream /\ FairStream

(***************************************************************************)
(* The same request and the same child behaviour, served by both endpoints *)
(***************************************************************************)
BothAccept ==
    /\ BufferedAccept /\ StreamingAccept
    /\ IF Rejected(request) THEN UNCHANGED chVars ELSE Spawn
    /\ UNCHANGED svVars

BothOnStdoutData ==
    BufferedStdout /\ StreamingStdout /\ StdoutDelivers /\ UNCHANGED svVars

BothOnStderrData ==
    BufferedStderr /\ StreamingStderr /\ StderrDelivers /\ UNCHANGED svVars

BothOnTimeout ==
    /\ BufferedTimeout /\ StreamingTimeout
    /\ TimerFires((IF ShouldKill(killed, procExitCode) THEN 1 ELSE 0)
                  + (IF StreamShouldKill(sKilled, procExitCode) THEN 1 ELSE 0))
    /\ UNCHANGED svVars

BothOnExit ==
    /\ \E st \in ExitStatuses : ChildExits(st) /\ BufferedExit(st) /\ StreamingExit(st)
    /\ UNCHANGED svVars

BothOnError == BufferedError /\ StreamingError /\ SpawnFails /\ UNCHANGED svVars

NextBoth ==
    \/ BothAccept
    \/ ChildWrites
    \/ DescendantExits
    \/ BothOnStdoutData
    \/ BothOnStderrData
    \/ BothOnTimeout
    \/ BothOnExit
    \/ BothOnError
    \/ StreamOnClose
    \/ ClientReceives

SpecBoth == InitExec /\ [][NextBoth]_vars

(***************************************************************************)
(* Properties                                                              *)
(***************************************************************************)
Issued(c, cmds) == \E i \in 1..Len(log[c]) : log[c][i].cmd \in cmds

Count(c, cmd) == Cardinality({ i \in 1..Len(log[c]) : log[c][i].cmd = cmd })

\* startContainer has returned a ContainerInfo in the caller's current call
Returned(c) == info[c].kind = "info"

\* the caller's current call is over
Over(c) == pc[c] = "idle" /\ calls[c] > 0

\* the runtime listed, as running, the environment the call is about
ReportedRunning(c) == log[c] # <<>> /\ log[c][1].cmd = "ps" /\ log[c][1].listed

\* the environment the call is about existed when the call looked for it
ReportedExisting(c) ==
    \/ ReportedRunning(c)
    \/ \E i \in 1..Len(log[c]) : log[c][i].cmd = "ps-a" /\ log[c][i].listed

\* C1: whenever the runtime reports the environment named for s as running,
\* ensure(s) issues no pull, no build, no create and no start, and returns
\* status=running.
C1_RunningMeansNoWork ==
    \A c \in Callers :
        ReportedRunning(c) =>
            /\ ~Issued(c, {"pull", "build", "run", "start"})
            /\ pc[c] \in {"idle", "ec_fetch"} =>
                    (Returned(c) /\ info[c].status = "running")

\* C2: on the slow path the image is resolved in one order, whatever
\* isCustomImage is: a local image means no pull and no build; otherwise one
\* pull; a build exactly when that pull failed; a failed build ends ensure
\* with a failure and nothing is started or created after it.
C2_ImageResolutionOrder ==
    \A c \in Callers : \A i \in 1..Len(log[c]) :
        LET e == log[c][i]
            last == i = Len(log[c])
        IN  /\ (e.cmd = "images" /\ e.listed) => ~Issued(c, {"pull", "build"})
            /\ (e.cmd = "images" /\ ~e.listed) =>
                    /\ IF last THEN pc[c] = "sc_pull" ELSE log[c][i + 1].cmd = "pull"
                    /\ Count(c, "pull") <= 1
            /\ e.cmd = "pull" =>
                    /\ i > 1 /\ log[c][i - 1].cmd = "images" /\ ~log[c][i - 1].listed
                    /\ IF e.res
                       THEN ~Issued(c, {"build"})
                       ELSE IF last THEN pc[c] = "sc_build"
                            ELSE log[c][i + 1].cmd = "build"
            /\ e.cmd = "build" =>
                    /\ i > 1 /\ log[c][i - 1].cmd = "pull" /\ ~log[c][i - 1].res
                    /\ Count(c, "build") = 1
                    /\ ~e.res =>
                        /\ last
                        /\ Over(c) /\ ~Returned(c)
                        /\ result[c].kind = "throw" \/ ~result[c].success

C2_Witness ==
    \E c \in Callers :
        /\ isCustomImage /\ Over(c) /\ Returned(c)
        /\ Len(log[c]) >= 5
        /\ log[c][2].cmd = "images" /\ ~log[c][2].listed
        /\ log[c][3].cmd = "pull" /\ ~log[c][3].res
        /\ log[c][4].cmd = "build" /\ log[c][4].res
        /\ Issued(c, {"run"})

\* C3: two consecutive successful ensure(s) calls with nothing in between
\* return the same endpoint URL.
C3_SameEndpointTwice ==
    \A c \in Callers :
        (Returned(c) /\ prevInfo[c].kind = "info" /\ prevSkill[c] = skillName[c])
            => info[c].url = prevInfo[c].url

C3_Witness ==
    \E c \in Callers :
        /\ Returned(c) /\ prevInfo[c].kind = "info" /\ prevSkill[c] = skillName[c]
        /\ op[c] = "ensure"
        /\ info[c].port \in OtherPorts
        /\ Issued(c, {"port"}) /\ ~Issued(c, {"images"})

\* C4: for every running environment named for s whose bound host port P
\* differs from portFor(s), ensure(s) returns port P and http://localhost:P;
\* the computed port is never returned in place of the bound port of an
\* environment that already exists.
C4_BoundPortReturned ==
    \A c \in Callers :
        LET bound == containers[Name(c)].port IN
        /\ (ReportedRunning(c) /\ Over(c) /\ bound # getAvailablePort(skillName[c]))
                => (Returned(c) /\ info[c].port = bound /\ info[c].url = Url(bound))
        /\ (ReportedExisting(c) /\ Returned(c)) => info[c].port = bound

\* C5: waitForContainer probes at most maxAttempts times, returns at the
\* first probe that answers OK, and fails after exactly maxAttempts probes
\* when none does; that failure fails the ensure call, which does not retry.
HealthTimeout(c) ==
    /\ Over(c)
    /\ ~Returned(c)
    /\ Issued(c, {"run", "start"})
    /\ log[c][Len(log[c])].res

C5_BoundedHealthPolling ==
    \A c \in Callers :
        /\ probes[c] <= maxAttempts
        /\ okProbes[c] <= 1
        /\ okProbes[c] = 1 => (Returned(c) /\ pc[c] # "sc_wait")
        /\ pc[c] = "sc_wait" => (probes[c] = attempt[c] /\ probes[c] < maxAttempts)
        /\ HealthTimeout(c) =>
                /\ probes[c] = maxAttempts /\ okProbes[c] = 0
                /\ Count(c, "run") + Count(c, "start") = 1
                /\ result[c].kind = "throw" \/ ~result[c].success

C5_Witness ==
    \E c \in Callers :
        HealthTimeout(c) /\ op[c] = "ensure" /\ result[c].kind = "throw"
            /\ probes[c] = maxAttempts

\* startContainer returns in this step
Returns(c) == info[c].kind = "none" /\ info'[c].kind = "info"

\* C6: every record ensure returns, on any path including the fast path,
\* refers to an environment that is running and whose health endpoint has
\* answered OK when ensure returns.
C6_ReturnedIsHealthy ==
    [][\A c \in Callers :
        Returns(c) =>
            /\ containers'[info'[c].containerId].status = "running"
            /\ containers'[info'[c].containerId].health = "ok"]_vars

\* C6 as amended: every record ensure returns refers to an environment that
\* is running; when ensure restarted or created it, its health endpoint has
\* answered OK on the returned port before ensure returns; on the fast path
\* ensure returns without any health probe.
C6_ReturnedIsRunning ==
    [][\A c \in Callers :
        Returns(c) =>
            /\ containers'[info'[c].containerId].status = "running"
            /\ IF Issued(c, {"start", "run"})
               THEN /\ okProbes'[c] = 1
                    /\ containers'[info'[c].containerId].port = info'[c].port
                    /\ containers'[info'[c].containerId].health = "ok"
               ELSE /\ probes'[c] = 0
                    /\ log[c][1].cmd = "ps" /\ log[c][1].res]_vars

C6_Witness ==
    \E c \in Callers :
        /\ Over(c) /\ Returned(c) /\ op[c] = "ensure"
        /\ Issued(c, {"start"}) /\ okProbes[c] = 1 /\ probes[c] > 1
        /\ containers[info[c].containerId].health = "ok"

\* C7: executeCommand never throws; a transport or protocol failure of the
\* request yields success=false, exitCode=1, empty stdout and stderr, and an
\* error message.
FetchFailed(c) ==
    /\ log[c] # <<>>
    /\ log[c][Len(log[c])].cmd = "fetch"
    /\ ~log[c][Len(log[c])].res

C7_ExecuteNeverThrows ==
    \A c \in Callers :
        (Over(c) /\ op[c] = "execute") =>
            /\ result[c].kind = "result"
            /\ FetchFailed(c) =>
                /\ ~result[c].success
                /\ result[c].exitCode = 1
                /\ result[c].stdout = <<>> /\ result[c].stderr = <<>>
                /\ result[c].error # <<>>

C7_Witness ==
    \E c \in Callers :
        Over(c) /\ op[c] = "execute" /\ FetchFailed(c) /\ fetches[c] = 1

\* C8: when ensure fails inside an execute call, no command-execution
\* request is sent and the caller gets an error outcome, never a success.
EnsureFailed(c) ==
    /\ log[c] # <<>>
    /\ \/ log[c][Len(log[c])].cmd \in {"build", "start", "run"}
            /\ ~log[c][Len(log[c])].res
       \/ log[c][Len(log[c])].cmd = "ps-a" /\ ~dockerUp
       \/ probes[c] = maxAttempts /\ okProbes[c] = 0

C8_EnsureFailureAborts ==
    \A c \in Callers :
        (op[c] = "execute" /\ EnsureFailed(c)) =>
            /\ fetches[c] = 0
            /\ pc[c] = "idle"
            /\ result[c].kind = "result"
            /\ ~result[c].success
            /\ result[c].exitCode = 1
            /\ result[c].error # <<>>

C8_Witness ==
    \E c \in Callers :
        /\ op[c] = "execute" /\ EnsureFailed(c) /\ pc[c] = "idle"
        /\ probes[c] = maxAttempts

\* the response of a request whose child ran and exited has reached the client
ExitDelivered == clientResult.kind = "result" /\ child = "exited"

C10_State ==
    /\ signals <= 1
    /\ responses # <<>> => child # "running"
    /\ (signals = 1 /\ responses # <<>>) =>
            /\ responses[1].timeout = <<TRUE>>
            /\ responses[1].success = <<FALSE>>
    /\ (signals = 1 /\ clientResult.kind = "result") =>
            /\ clientResult.timeout = <<TRUE>>
            /\ ~clientResult.success

C10_Step ==
    /\ (timer = "set" /\ timer' = "fired" /\ child = "running") => signals' = signals + 1
    /\ signals' # signals => (child = "running" /\ procExitCode = Null)

C11_TimeoutAnswers ==
    (server = "waiting" /\ timer = "fired") ~> (responses # <<>>)

\* C12: a command that exits non-zero without timing out is answered with
\* HTTP 200, success=false, the child's exit code and the stdout and stderr
\* captured until then; the client returns the same values, no timeout flag
\* and no error of its own.
NonZeroExit == child = "exited" /\ exitStatus.code \notin {0, Null} /\ ~killed

C12_State ==
    (NonZeroExit /\ clientResult.kind = "result") =>
        /\ ~clientResult.success
        /\ clientResult.exitCode = exitStatus.code
        /\ clientResult.stdout = responses[1].stdout[1]
        /\ clientResult.stderr = responses[1].stderr[1]
        /\ clientResult.timeout # <<TRUE>>
        /\ clientResult.error = <<>>

C12_Step ==
    (child = "running" /\ NonZeroExit') =>
        /\ httpStatus' = <<200>>
        /\ responses' = << JsonBody(<<FALSE>>, <<stdout>>, <<stderr>>,
                                     <<exitStatus'.code>>, <<>>, <<FALSE>>) >>

C12_NonZeroExitIsNormal == [][C12_State' /\ C12_Step]_vars

C12_Witness ==
    /\ NonZeroExit
    /\ clientResult.kind = "result"
    /\ clientResult.exitCode = 3
    /\ clientResult.stdout # <<>> /\ clientResult.stderr # <<>>

\* C13: the buffered result contains everything the child wrote to stdout and
\* to stderr before it exited, in every interleaving of the data events with
\* the exit event.
C13_NoOutputLost ==
    (child = "exited" /\ responses # <<>>) =>
        Len(responses[1].stdout[1]) + Len(responses[1].stderr[1]) = written

\* C14: for every POST /bash request the emitted event sequence begins with a
\* start event and ends with exactly one terminal event, exit or error: no
\* event follows the terminal event, and a closed stream ends with one.
IsTerminal(e) == e.type \in {"exit", "error"}

C14_StartFirstTerminalLast ==
    /\ events # <<>> => events[1].type = "start"
    /\ \A i \in 1..Len(events) : IsTerminal(events[i]) => i = Len(events)
    /\ stream = "closed" => (events # <<>> /\ IsTerminal(events[Len(events)]))

\* C15: for the same command and the same child behaviour, the exit event of
\* the streaming endpoint carries the exit code and the timed-out flag that
\* the buffered endpoint answers as exitCode and timeout, and the streaming
\* sequence holds a timeout event exactly when that flag is true.
HasEvent(type) == \E j \in 1..Len(events) : events[j].type = type

C16_StreamCloses == <>(stream = "closed")

TaskIssued(s, cmd) == \E i \in 1..Len(taskLog[s]) : taskLog[s][i].cmd = cmd

\* the latest cleanup has finished and nothing was called since
CleanupOver ==
    /\ cleanups > 0
    /\ callsSinceCleanup = 0
    /\ apiCalls = 0
    /\ \A s \in Skills : ~TaskRunning(s)

\* C17: after N successful use-skill calls across N distinct identities the
\* cleanup issues a stop and a remove for exactly those identities and no
\* runtime call for any other; a cleanup of an empty session issues none.
C17_CleanupCoversSession ==
    (CleanupOver /\ cleanups = 1 /\ attempted = succeeded) =>
        \A s \in Skills :
            IF s \in succeeded
            THEN TaskIssued(s, "stop") /\ TaskIssued(s, "rm")
            ELSE taskLog[s] = <<>>

\* C18: the session set contains an identity only if some use-skill call for
\* it succeeded in ensuring its environment and executing its command.
C18_TrackedOnlyIfSucceeded == startedContainers \subseteq succeeded

\* C19: a cleanup drains the session: once it is over the set is empty, and
\* a further cleanup with no use-skill call in between starts no task and
\* issues no runtime call.
C19_State == CleanupOver => startedContainers = {}

C19_Step ==
    (cleanups' = cleanups + 1 /\ cleanups >= 1 /\ callsSinceCleanup = 0) =>
        \A s \in Skills : taskPc'[s] = "idle"

C19_CleanupDrains == [][C19_State' /\ C19_Step]_vars

\* C20: stop(s) issues a runtime stop if and only if the environment for s is
\* running; remove(s) performs stop(s) first and then issues the runtime
\* remove; a failed remove is surfaced as an error and leaves the environment
\* stopped.
C20_Stop(s) ==
    \A i \in 1..Len(taskLog[s]) :
        taskLog[s][i].cmd = "ps" =>
            (taskLog[s][i].listed <=>
                \/ i < Len(taskLog[s]) /\ taskLog[s][i + 1].cmd = "stop"
                \/ i = Len(taskLog[s]) /\ taskPc[s] \in {"stop_stop", "rm_stop"})

C20_Remove(s) ==
    \A i \in 1..Len(taskLog[s]) :
        taskLog[s][i].cmd = "rm" =>
            /\ i > 1
            /\ taskLog[s][i - 1].cmd \in {"ps", "stop"}
            /\ taskLog[s][i - 1].inRemove
            /\ taskLog[s][i - 1].res \/ taskLog[s][i - 1].cmd = "ps"
            /\ ~taskLog[s][i].res =>
                    /\ taskErr[s] = <<"Failed to remove container">>
                    /\ taskLog[s][i].status # "running"

C20_StopThenRemove == \A s \in Skills : C20_Stop(s) /\ C20_Remove(s)

(***************************************************************************)
(* Evaluation of getAvailablePort                                          *)
(***************************************************************************)
\* nothing else runs while a helper is evaluated
Elsewhere ==
    /\ ExecIdle
    /\ SessionInit
    /\ PrewarmOff
    /\ ClientInit
    /\ dockerUp = FALSE /\ imageExists = FALSE
    /\ isCustomImage = FALSE /\ customContainerName = <<>>
    /\ containers = [n \in AllNames |-> Absent]

\* the characters identities are made of: "a", "b"
IdChars == {97, 98}

\* the non-empty identities of at most n characters
RECURSIVE Identities(_)
Identities(n) ==
    IF n = 0 THEN {}
    ELSE { <<c>> : c \in IdChars }
         \cup { Append(s, c) : s \in Identities(n - 1), c \in IdChars }

\* getAvailablePort(input) is entered: the reduce starts from 0
Entered(ports) ==
    [acc |-> <<0, 0>>, rest |-> input, hash |-> <<0, 0>>, ports |-> ports]

InitPortEval ==
    /\ Elsewhere
    /\ input \in Identities(MaxIdLen)
    /\ output = Entered(<<>>)

\* one round of the reduce over the characters of the identity
PortReduce ==
    /\ Len(output.ports) < MaxEvals
    /\ output.rest # <<>>
    /\ output' = [output EXCEPT !.acc = HashStep(@, Head(output.rest)),
                                !.rest = Tail(@)]
    /\ UNCHANGED <<rtVars, isCustomImage, customContainerName, cleanupPc,
                   pwVars, input,
                   clVars, exVars, seVars>>

\* the port is returned; the caller may ask again for the same identity
PortReturn ==
    /\ Len(output.ports) < MaxEvals
    /\ output.rest = <<>>
    /\ output' = [Entered(Append(output.ports, PortOf(output.acc)))
                      EXCEPT !.hash = output.acc]
    /\ UNCHANGED <<rtVars, isCustomImage, customContainerName, cleanupPc,
                   pwVars, input,
                   clVars, exVars, seVars>>

NextPortEval == PortReduce \/ PortReturn

SpecPortEval == InitPortEval /\ [][NextPortEval]_vars

\* the hash of the identity left the signed 32-bit range
OutsideInt32(a) == ToInt32(a) # a

\* C26: for every non-empty identity, also one whose hash overflows or is
\* negative, the computed port lies in [3000, 3999], and every evaluation
\* for the same identity gives the same port
C26_PortInRange ==
    \A i \in 1..Len(output.ports) :
        /\ output.ports[i] >= 3000
        /\ output.ports[i] <= 3999
        /\ output.ports[i] = output.ports[1]

\* evaluated twice for an identity whose hash is negative and outside the
\* signed 32-bit range
C26_Witness ==
    /\ Len(output.ports) = 2
    /\ Negative(output.hash)
    /\ OutsideInt32(output.hash)

\* the reference: hash * 31 + charCode, wrapped to a signed 32-bit integer
\* at every step, then 3000 + |hash| mod 1000
RECURSIVE ReferenceHash(_, _)
ReferenceHash(h, s) ==
    IF s = <<>> THEN h
    ELSE ReferenceHash(ToInt32(Wide(h[1] * 31, h[2] * 31 + Head(s))), Tail(s))

ReferencePort(s) == 3000 + Rem1000(Abs(ReferenceHash(<<0, 0>>, s)))

\* C27: for every identity the computed port equals the port of the
\* reference signed 32-bit hash
C27_EqualsReference ==
    \A i \in 1..Len(output.ports) : output.ports[i] = ReferencePort(input)

(***************************************************************************)
(* Derivation of environment names from the working directory              *)
(***************************************************************************)
\* the characters working directories are made of: "/", "w", "W", "_"
PathChars == {47, 119, 87, 95}

\* absolute paths of at most n characters, as process.cwd() returns them:
\* no empty segment, no trailing separator
RECURSIVE Paths(_)
Paths(n) ==
    IF n < 2 THEN {}
    ELSE { <<47, c>> : c \in PathChars \ {47} }
         \cup { Append(p, c) : p \in Paths(n - 1), c \in PathChars \ {47} }
         \cup { p \o <<47, c>> : p \in Paths(n - 2), c \in PathChars \ {47} }

\* two servers, one per workspace, configured alike, asked for one skill
InitNameEval ==
    /\ Elsewhere
    /\ input \in [cwd1 : Paths(MaxPathLen), cwd2 : Paths(MaxPathLen),
                  custom : NameOverrides, skill : Skills]
    /\ output = <<>>

\* new SandboxService(...) in each workspace, then getContainerName(skill)
NameEval ==
    /\ output = <<>>
    /\ output' = <<ContainerNameIn(RepoPrefixOf(input.cwd1), input.custom, input.skill),
                   ContainerNameIn(RepoPrefixOf(input.cwd2), input.custom, input.skill)>>
    /\ UNCHANGED <<rtVars, isCustomImage, customContainerName, cleanupPc,
                   pwVars, input,
                   clVars, exVars, seVars>>

NextNameEval == NameEval

SpecNameEval == InitNameEval /\ [][NextNameEval]_vars

\* C22: two distinct workspaces (distinct working directory paths) never
\* derive the same environment name
C22_DistinctWorkspacesDistinctNames ==
    (output # <<>> /\ input.cwd1 # input.cwd2) => output[1] # output[2]

(***************************************************************************)
(* One environment for all skills under a container name override          *)
(***************************************************************************)
\* this step of caller c issues `docker run`
RunIssued(c) ==
    /\ Len(log'[c]) = Len(log[c]) + 1
    /\ log'[c][Len(log'[c])].cmd = "run"

\* a later call of c, after a call that returned an environment
LaterCall(c) == calls[c] > 1 /\ prevInfo[c].kind = "info"

C23_SameNameSameEndpoint ==
    customContainerName # <<>> =>
        /\ \A s, t \in Skills : getContainerName(customContainerName, s)
                                    = getContainerName(customContainerName, t)
        /\ \A c \in Callers : LaterCall(c) =>
            /\ ~Issued(c, {"pull", "build", "run", "start"})
            /\ Over(c) => (Returned(c) /\ info[c].url = prevInfo[c].url)

C23_CreatedOnce ==
    customContainerName # <<>> =>
        /\ \A c \in Callers : RunIssued(c) =>
            /\ containers[Name(c)] = Absent
            /\ containers'[Name(c)] # Absent
        /\ \A n \in AllNames : containers[n] # Absent => containers'[n] # Absent

\* C23: with a container name override the name is the same for any two
\* skills; `docker run` is issued only while the environment is absent and
\* it stays present afterwards, so sequential calls for different skills
\* create at most one environment; every call after one that returned the
\* environment creates and starts nothing and returns the same endpoint
C23_OverrideSharesEnvironment ==
    []C23_SameNameSameEndpoint /\ [][C23_CreatedOnce]_vars

\* a call for one skill has returned the environment whose port was
\* computed for the other skill, of the call before
C23_Witness ==
    /\ customContainerName # <<>>
    /\ LaterCall("c1") /\ Over("c1") /\ Returned("c1")
    /\ op["c1"] = "ensure"
    /\ skillName["c1"] # prevSkill["c1"]
    /\ info["c1"].port = getAvailablePort(prevSkill["c1"])
    /\ info["c1"].port # getAvailablePort(skillName["c1"])

(***************************************************************************)
(* use-skill without a container runtime                                   *)
(***************************************************************************)
\* the use-skill call of c is past its version check
Checked(c) == pc[c] = "ct_track" \/ (pc[c] = "idle" /\ calls[c] > 0)

\* C28: when the runtime version check fails, use-skill returns the error
\* result, issues no runtime call besides the version check and sends no
\* command-execution request
C28_NoRuntimeNoWork ==
    \A c \in Callers : (op[c] = "useSkill" /\ ~dockerUp) =>
        /\ pc[c] \in {"idle", "ct_docker", "ct_track"}
        /\ Len(log[c]) <= 1
        /\ \A i \in 1..Len(log[c]) : log[c][i].cmd = "version" /\ ~log[c][i].res
        /\ fetches[c] = 0
        /\ request.kind = "none"
        /\ Checked(c) => result[c] = DockerUnavailable

\* the version check of a use-skill call has just failed
C28_Witness ==
    /\ ~dockerUp
    /\ op["c1"] = "useSkill" /\ pc["c1"] = "ct_track"
    /\ Len(log["c1"]) = 1
    /\ result["c1"] = DockerUnavailable

(***************************************************************************)
(* The environment of a spawned child                                      *)
(***************************************************************************)
\* values of PATH and HOME in a server's environment; "" is an unset variable
ServerPaths == {"", "/usr/bin", "/opt/tools/bin"}
ServerHomes == {"", "/root", "/workspace"}
ServerEnvs == [PATH : ServerPaths, HOME : ServerHomes, LANG : {"C"}]

RestrictedPath == "/usr/local/bin:/usr/bin:/bin"
WorkingPath == "/workspace"

\* process.cwd() of the server
ServerCwd == "/app"

\* the three endpoints that run a command
Endpoints == {"/bash", "/bash/exec", "/execute"}

\* { ...process.env, PATH: process.env.PATH || '/usr/local/bin:/usr/bin:/bin' }
ProxyChildEnv(env) ==
    [env EXCEPT !.PATH = IF env.PATH # "" THEN env.PATH ELSE RestrictedPath]

\* { ...process.env, HOME: '/workspace', PATH: '/usr/local/bin:/usr/bin:/bin' }
SandboxChildEnv(env) ==
    [env EXCEPT !.HOME = WorkingPath, !.PATH = RestrictedPath]

\* the options of spawn / exec: the body's cwd (workdir) or its default
ChildOptions(endpoint, env, cwd) ==
    IF endpoint = "/execute"
    THEN [cwd |-> IF cwd # <<>> THEN cwd[1] ELSE "/workspace",
          env |-> SandboxChildEnv(env)]
    ELSE [cwd |-> IF cwd # <<>> THEN cwd[1] ELSE ServerCwd,
          env |-> ProxyChildEnv(env)]

\* two server processes that differ at most in PATH and HOME get one request
InitChildEnv ==
    /\ Elsewhere
    /\ input \in [env1 : ServerEnvs, env2 : ServerEnvs, endpoint : Endpoints,
                  cwd : {<<>>, <<"/workspace">>, <<"/workspace/sub">>}]
    /\ output = <<>>

\* both servers spawn the child for the request
ChildEnvEval ==
    /\ output = <<>>
    /\ output' = <<ChildOptions(input.endpoint, input.env1, input.cwd),
                   ChildOptions(input.endpoint, input.env2, input.cwd)>>
    /\ UNCHANGED <<rtVars, isCustomImage, customContainerName, cleanupPc,
                   pwVars, input,
                   clVars, exVars, seVars>>

NextChildEnv == ChildEnvEval

SpecChildEnv == InitChildEnv /\ [][NextChildEnv]_vars

\* C29: the child's working directory and environment do not depend on the
\* server's PATH and HOME: both children run in the requested directory with
\* the restricted PATH and with HOME set to the working path
C29_ChildEnvIndependent ==
    output # <<>> =>
        /\ output[1] = output[2]
        /\ \A i \in 1..2 :
            /\ input.cwd # <<>> => output[i].cwd = input.cwd[1]
            /\ output[i].env.PATH = RestrictedPath
            /\ output[i].env.HOME = WorkingPath

(***************************************************************************)
(* Restart of a stopped environment                                        *)
(***************************************************************************)
\* the runtime reported the environment of this call as existing, not running
ReportedStopped(c) ==
    /\ ~ReportedRunning(c)
    /\ \E i \in 1..Len(log[c]) : log[c][i].cmd = "ps-a" /\ log[c][i].listed

\* C30: when the environment exists but is stopped, ensure issues a start
\* and never a create, then reads back the bound port; the health check is
\* polled on that port and the returned endpoint uses it
C30_StoppedIsRestarted ==
    \A c \in Callers : ReportedStopped(c) =>
        LET bound == containers[Name(c)].port IN
        /\ ~Issued(c, {"run"})
        /\ pc[c] # "sc_run"
        /\ pc[c] # "sc_start" => Issued(c, {"start"})
        /\ (pc[c] = "sc_wait" \/ Returned(c)) =>
            /\ Issued(c, {"port"})
            /\ actualHostPort[c] = bound
        /\ Returned(c) => (info[c].port = bound /\ info[c].url = Url(bound))

(***************************************************************************)
(* The client of POST /bash/exec while no response arrives                 *)
(***************************************************************************)
\* C25: executeCommand eventually returns a result once the execution
\* timeout has expired, even if the server never answers the request
C25_ClientReturnsAfterTimeout ==
    (timer = "fired") ~> (clientResult # NoValue)

(***************************************************************************)
(* createServer with prewarmDocker: prewarm() in the background            *)
(***************************************************************************)
PrewarmLogged(cmd) == prewarmLog' = Append(prewarmLog, cmd)

\* faulty variant: the error of buildImage leaves prewarm()
EscapesUncaught(built) == ~built

\* whether an error leaves prewarm(): the catch around its whole body only
\* logs (lines 533-538)
Escapes(built) == FALSE

\* createServer(options): sandboxService.prewarm().catch(...) is started when
\* prewarmDocker is set, and createServer returns
CreateServer ==
    /\ prewarmPc = "new"
    /\ \E prewarmDocker \in BOOLEAN :
        prewarmPc' = IF prewarmDocker THEN "pw_docker" ELSE "off"
    /\ UNCHANGED <<prewarmLog, prewarmThrew>>
    /\ UNCHANGED <<rtVars, isCustomImage, customContainerName, cleanupPc,
                   pfVars,
                   clVars, exVars, seVars>>

\* const dockerAvailable = await this.isDockerAvailable()
PrewarmCheckDocker ==
    /\ prewarmPc = "pw_docker"
    /\ PrewarmLogged("version")
    /\ prewarmPc' = IF isDockerAvailable(dockerUp) THEN "pw_images" ELSE "done"
    /\ UNCHANGED prewarmThrew
    /\ UNCHANGED <<rtVars, isCustomImage, customContainerName, cleanupPc,
                   pfVars,
                   clVars, exVars, seVars>>

\* const imageBuilt = await this.isImageBuilt()
PrewarmCheckImage ==
    /\ prewarmPc = "pw_images"
    /\ PrewarmLogged("images")
    /\ prewarmPc' = IF isImageBuilt(dockerUp, imageExists) THEN "done" ELSE "pw_pull"
    /\ UNCHANGED prewarmThrew
    /\ UNCHANGED <<rtVars, isCustomImage, customContainerName, cleanupPc,
                   pfVars,
                   clVars, exVars, seVars>>

\* const pulled = await this.pullImage(), in either branch of isCustomImage
PrewarmPull ==
    /\ prewarmPc = "pw_pull"
    /\ \E pulled \in (IF dockerUp THEN BOOLEAN ELSE {FALSE}) :
        /\ PrewarmLogged("pull")
        /\ imageExists' = (imageExists \/ pulled)
        /\ prewarmPc' = IF BuildAfterPull(pulled) THEN "pw_build" ELSE "done"
    /\ UNCHANGED prewarmThrew
    /\ UNCHANGED <<dockerUp, containers, isCustomImage, customContainerName, cleanupPc,
                   pfVars,
                   clVars, exVars, seVars>>

\* await this.buildImage(); its error is caught at the end of prewarm
PrewarmBuild ==
    /\ prewarmPc = "pw_build"
    /\ \E built \in (IF dockerUp THEN BOOLEAN ELSE {FALSE}) :
        /\ PrewarmLogged("build")
        /\ imageExists' = (imageExists \/ built)
        /\ prewarmThrew' = Escapes(built)
    /\ prewarmPc' = "done"
    /\ UNCHANGED <<dockerUp, containers, isCustomImage, customContainerName, cleanupPc,
                   pfVars,
                   clVars, exVars, seVars>>

PrewarmStep ==
    \/ PrewarmCheckDocker
    \/ PrewarmCheckImage
    \/ PrewarmPull
    \/ PrewarmBuild

\* a process that is about to call createServer
InitPrewarm ==
    /\ Constructed
    /\ prewarmPc = "new"
    /\ prewarmLog = <<>>
    /\ prewarmThrew = FALSE

NextPrewarm ==
    \/ CreateServer
    \/ PrewarmStep
    \/ \E c \in Callers : ToolStep(c)
    \/ ServerProgress

SpecPrewarm == InitPrewarm /\ [][NextPrewarm]_vars

PrewarmInProgress == prewarmPc \in {"pw_docker", "pw_images", "pw_pull", "pw_build"}

\* C24: prewarm() never throws, whatever the version check, the image
\* query, the pull and the build answer, and it always has a next step until
\* it is done; while it is in progress a use-skill call can be accepted; and
\* with the runtime unavailable it issues nothing but the version check
C24_PrewarmNeverFailsNorBlocks ==
    /\ ~prewarmThrew
    /\ PrewarmInProgress => ENABLED PrewarmStep
    /\ \A c \in Callers :
        (PrewarmInProgress /\ pc[c] = "idle" /\ calls[c] < MaxCalls)
            => ENABLED CallTool(c)
    /\ ~dockerUp => \A i \in 1..Len(prewarmLog) : prewarmLog[i] = "version"

\* a use-skill call is under way while prewarm, whose pull failed, is about
\* to build
C24_Witness ==
    /\ prewarmPc = "pw_build"
    /\ pc["c1"] \notin {"idle", "ct_docker"}
    /\ op["c1"] = "useSkill"

(***************************************************************************)
(* Two concurrent startContainer calls for one skill                       *)
(***************************************************************************)
\* two call chains, of one process or of two: they share nothing but the
\* container runtime
RaceCallers == {"c1", "c2"}

\* the default image, on a runtime that holds no container of these names yet
InitRace ==
    /\ Configured
    /\ ~isCustomImage
    /\ \A n \in AllNames : containers[n] = Absent
    /\ ClientInitOf(RaceCallers)
    /\ PrewarmOff

\* startContainer(s), for the skill the other caller has called it for
EnsureCall(c) ==
    /\ calls[c] = 0
    /\ Call(c)
    /\ op'[c] = "ensure"
    /\ \A d \in RaceCallers \ {c} : skillName[d] \in {<<>>, skillName'[c]}

RaceStep(c) ==
    \/ EnsureCall(c)
    \/ CheckRunning(c)
    \/ FastPath(c)
    \/ CheckImage(c)
    \/ PullDefaultImage(c)
    \/ BuildDefaultImage(c)
    \/ CheckExisting(c)
    \/ StartExisting(c)
    \/ ReadPort(c)
    \/ RunNew(c)
    \/ WaitForContainer(c)

NextRace ==
    \/ \E c \in RaceCallers : RaceStep(c)
    \/ ServerProgress

SpecRace == InitRace /\ [][NextRace]_vars

\* the runtime told c that no environment of the name exists
ObservedNone(c) ==
    \E i \in 1..Len(log[c]) : log[c][i].cmd = "ps-a" /\ ~log[c][i].listed

\* c issued `docker run`, and it succeeded / was rejected
Created(c) == \E i \in 1..Len(log[c]) : log[c][i].cmd = "run" /\ log[c][i].res
RunRejected(c) == \E i \in 1..Len(log[c]) : log[c][i].cmd = "run" /\ ~log[c][i].res

\* C21: of two concurrent ensure calls for one identity at most one creates
\* an environment of that name; when both observe that none exists and both
\* attempt the creation, exactly one creation succeeds and the other call
\* fails with the generic start failure, without a retry
C21_OneCreationWins ==
    /\ Cardinality({ c \in RaceCallers : Created(c) }) <= 1
    /\ (\A c \in RaceCallers : ObservedNone(c) /\ Issued(c, {"run"})) =>
        /\ Cardinality({ c \in RaceCallers : Created(c) }) = 1
        /\ \A c \in RaceCallers : RunRejected(c) =>
            /\ pc[c] = "idle"
            /\ result[c] = StartFailure("docker run failed")
            /\ info[c] = NoValue
            /\ Count(c, "run") = 1
            /\ log[c][Len(log[c])].cmd = "run"

\* both callers saw no environment and both issued the creation; the one of
\* c1 was rejected while c2 got its environment
C21_Witness ==
    /\ \A c \in RaceCallers : ObservedNone(c) /\ Issued(c, {"run"})
    /\ RunRejected("c1")
    /\ Created("c2") /\ Returned("c2") /\ pc["c2"] = "idle"

(***************************************************************************)
(* Exact names against the substring filter of the runtime                 *)
(***************************************************************************)
\* C31: whatever other environments the runtime holds, startContainer takes
\* an environment as running if and only if one of exactly its name is
\* running and as existing if and only if one of exactly its name exists;
\* so in sequential use `docker run` is never issued for a name that exists
C31_ExactNameDecides ==
    \A c \in Callers :
        /\ \A i \in 1..Len(log[c]) :
            log[c][i].cmd \in {"ps", "ps-a"} => log[c][i].res = log[c][i].listed
        /\ pc[c] = "sc_run" => containers[Name(c)] = Absent

(***************************************************************************)
(* Identities whose computed ports are equal                               *)
(***************************************************************************)
\* "a", "щ" and "aZ": the same hash modulo 1000, so the same computed
\* port; the name made for "aZ" contains the name made for "a"
CollideSkills == {<<97>>, <<1097>>, <<97, 90>>}

CollideNames == { getContainerName(<<>>, s) : s \in CollideSkills }

\* the port all three compute, and another one
CollidePorts == { getAvailablePort(s) : s \in CollideSkills } \cup OtherPorts

CollideContainer ==
    {Absent}
    \cup [status : {"stopped"}, port : CollidePorts, health : {"down"}]
    \cup [status : {"running"}, port : CollidePorts, health : {"down", "ok"}]

\* no name override and the default image; any runtime over these names
InitCollide ==
    /\ ExecIdle
    /\ PureIdle
    /\ PrewarmOff
    /\ ClientInit
    /\ startedContainers = {}
    /\ taskPc = [s \in CollideSkills |-> "idle"]
    /\ taskOp = [s \in CollideSkills |-> "none"]
    /\ taskLog = [s \in CollideSkills |-> <<>>]
    /\ taskErr = [s \in CollideSkills |-> <<>>]
    /\ cleanups = 0
    /\ cleanupPc = "idle"
    /\ apiCalls = 0
    /\ attempted = {}
    /\ succeeded = {}
    /\ callsSinceCleanup = 0
    /\ dockerUp \in BOOLEAN
    /\ imageExists \in BOOLEAN
    /\ isCustomImage = FALSE
    /\ customContainerName = <<>>
    /\ containers \in [CollideNames -> CollideContainer]
    /\ RuntimeOk(containers)
    /\ ~dockerUp => (~imageExists /\ \A n \in CollideNames : containers[n] = Absent)

\* startContainer(s), called when nothing else is in progress
EnsureAlone(c) ==
    /\ Quiet
    /\ calls[c] < MaxCalls
    /\ \E s \in CollideSkills : Enter(c, "ensure", s)

CollideStep(c) ==
    \/ EnsureAlone(c)
    \/ CheckRunning(c)
    \/ FastPath(c)
    \/ CheckImage(c)
    \/ PullDefaultImage(c)
    \/ BuildDefaultImage(c)
    \/ CheckExisting(c)
    \/ StartExisting(c)
    \/ ReadPort(c)
    \/ RunNew(c)
    \/ WaitForContainer(c)

NextCollide ==
    \/ \E c \in Callers : CollideStep(c)
    \/ \E s \in CollideSkills : TaskStep(s)
    \/ ServerProgress

SpecCollide == InitCollide /\ [][NextCollide]_vars

\* C32: for identities with equal computed ports and no name override, an
\* ensure that returns an endpoint returns the port its own environment is
\* bound to and running on: no other environment is bound to that port.
C32_NeverTheOthersEndpoint ==
    [][\A c \in Callers :
        Returns(c) =>
            /\ info'[c].containerId = getContainerName(<<>>, skillName'[c])
            /\ containers'[info'[c].containerId].status = "running"
            /\ containers'[info'[c].containerId].port = info'[c].port
            /\ \A n \in CollideNames \ {info'[c].containerId} :
                ~(containers'[n].status = "running"
                    /\ containers'[n].port = info'[c].port)]_vars

\* ensure("a") returned the computed port, "a" was stopped, and ensure("щ")
\* then returned the same port, now bound to its own environment
C32_Witness ==
    \E c \in Callers :
        /\ Returned(c) /\ skillName[c] = <<1097>>
        /\ prevInfo[c].kind = "info" /\ prevSkill[c] = <<97>>
        /\ info[c].port = prevInfo[c].port
        /\ info[c].port = getAvailablePort(<<97>>)
        /\ containers[prevInfo[c].containerId].status = "stopped"
        /\ containers[prevInfo[c].containerId].port = info[c].port

\* C33: a request without a command, or with an empty one, is answered
\* HTTP 400 with success=false before anything is spawned: no child, no
\* timer; executeCommand then returns success=false, exitCode=1 and the
\* error message of the server.
C33_MissingCommandRejected ==
    (request.kind = "json" /\ request.command \in {<<>>, <<EmptyCommand>>}) =>
        /\ child = "none" /\ ~errorPending /\ timer = "unset"
        /\ server \in {"new", "closed"}
        /\ server = "closed" =>
            /\ httpStatus = <<400>>
            /\ Len(responses) = 1
            /\ responses[1].success = <<FALSE>>
            /\ responses[1].error = <<"Command is required">>
        /\ clientResult # NoValue =>
            /\ clientResult.kind = "result"
            /\ clientResult.success = FALSE
            /\ clientResult.exitCode = 1
            /\ clientResult.error = responses[1].error

\* an empty command was sent and executeCommand has returned
C33_Witness ==
    /\ request.kind = "json" /\ request.command = <<EmptyCommand>>
    /\ server = "closed"
    /\ clientResult # NoValue /\ clientResult.exitCode = 1

(***************************************************************************)
(* POST /bash/exec when 'error' and 'exit' are both emitted for a child    *)
(***************************************************************************)
\* error.message of the 'error' event when the child could not be killed
KillError == <<"kill", "EPERM">>

\* the setTimeout callback when proc.kill('SIGTERM') fails: kill emits
\* 'error' before it returns, so the error handler runs (clearTimeout,
\* resolve) while the child runs on
OnTimeoutKillFails ==
    /\ server = "waiting"
    /\ child = "running"
    /\ ShouldKill(killed, procExitCode)
    /\ killed' = TRUE
    /\ TimerFires(0)
    /\ Answered(SpawnErrorResponse(ErrorMessage(KillError)), 200)
    /\ UNCHANGED <<server, stdout, stderr, clientResult>>
    /\ UNCHANGED <<stVars, svVars>>

NextExecErr ==
    \/ NextExec
    \/ OnTimeoutKillFails

SpecExecErr == InitExec /\ [][NextExecErr]_vars

\* the child could not be spawned and the error handler has run
SpawnFailed == server = "waiting" /\ child = "none" /\ ~errorPending

FileHelpers == {"readFile", "writeFile"}

\* result.error || result.stderr || 'Failed to read file'
FailureCause(helper, r) ==
    IF r.error # <<>> THEN r.error
    ELSE IF r.stderr # <<>> THEN r.stderr
    ELSE IF helper = "readFile" THEN <<"Failed to read file">>
    ELSE <<"Failed to write file">>

\* what the helper makes of the result of executeCommand: a result without
\* success is thrown, and rethrown by the catch block with a prefix
FileHelperResult(helper, r) ==
    IF ~r.success
    THEN [kind |-> "throw",
          message |-> <<IF helper = "readFile" THEN "Failed to read file"
                        ELSE "Failed to write file">> \o FailureCause(helper, r)]
    ELSE IF helper = "readFile" THEN [kind |-> "content", stdout |-> r.stdout]
    ELSE [kind |-> "void"]

\* a caller invokes readFile(s, path) or writeFile(s, path, content), which
\* starts with executeCommand(s, {command})
FileCall(c) ==
    /\ calls[c] < MaxCalls
    /\ \E o \in FileHelpers, s \in Skills : Enter(c, o, s)

\* executeCommand has returned into the helper
FileReturn(c) ==
    /\ pc[c] = "fh_result"
    /\ result' = [result EXCEPT ![c] = FileHelperResult(op[c], result[c])]
    /\ pc' = [pc EXCEPT ![c] = "idle"]
    /\ UNCHANGED <<rtVars, cfgVars, exVars, seVars>>
    /\ UNCHANGED <<op, skillName, hostPort, actualHostPort, attempt, info, log,
                   probes, okProbes, fetches, prevSkill, prevInfo, calls>>

FileStep(c) ==
    \/ FileCall(c)
    \/ CheckRunning(c)
    \/ FastPath(c)
    \/ CheckImage(c)
    \/ PullDefaultImage(c)
    \/ BuildDefaultImage(c)
    \/ PullCustomImage(c)
    \/ BuildCustomImage(c)
    \/ CheckExisting(c)
    \/ StartExisting(c)
    \/ ReadPort(c)
    \/ RunNew(c)
    \/ WaitForContainer(c)
    \/ FetchExec(c)
    \/ FileReturn(c)

NextFile ==
    \/ \E c \in Callers : FileStep(c)
    \/ ServerProgress

SpecFile == Init /\ [][NextFile]_vars

\* executeCommand returned a failure of an environment that was usable: the
\* command exited with a non-zero code, it timed out, or the request failed
FailedAfterUsable(c) ==
    /\ Returned(c)
    /\ ~result[c].success
    /\ \/ result[c].error = <<>> /\ result[c].exitCode \notin {0, 1}
       \/ result[c].timeout = <<TRUE>>
       \/ ~log[c][Len(log[c])].res

\* C35: once startContainer has returned an environment, readFile and
\* writeFile report a failure (non-zero exit, timeout, transport failure)
\* as data: the call does not end in a thrown exception.
C35_FailureIsData ==
    [][\A c \in Callers :
        (pc[c] = "fh_result" /\ pc'[c] = "idle" /\ FailedAfterUsable(c))
            => result'[c].kind # "throw"]_vars

\* the cleanup task of s called stopContainer(s) / removeContainer(s)
StopAttempted(s) ==
    taskLog[s] # <<>> /\ taskLog[s][1].cmd = "ps" /\ ~taskLog[s][1].inRemove

RemoveAttempted(s) == \E i \in 1..Len(taskLog[s]) : taskLog[s][i].inRemove

\* C36: cleanup never throws; when it returns, the task of every tracked
\* identity has finished, it called stop for that identity and, unless that
\* stop itself failed, remove: a failure for one identity is caught and the
\* other identities are attempted all the same, also when they share one
\* environment through a name override and their commands interleave.
C36_CleanupAttemptsAll ==
    [][/\ cleanupPc' # "threw"
       /\ (cleanupPc = "running" /\ cleanupPc' = "returned") =>
            \A s \in startedContainers :
                /\ taskPc[s] = "done"
                /\ StopAttempted(s)
                /\ RemoveAttempted(s) \/ taskErr[s] = <<"Failed to stop container">>]_vars

\* two identities tracked under one name override: the cleanup returned
\* although the stop of one of them failed, and the other was removed
C36_Witness ==
    /\ cleanupPc = "returned"
    /\ customContainerName # <<>>
    /\ startedContainers = Skills
    /\ \E s \in Skills :
        /\ taskErr[s] = <<"Failed to stop container">>
        /\ \A t \in Skills \ {s} :
            /\ taskPc[t] = "done"
            /\ \E i \in 1..Len(taskLog[t]) : taskLog[t][i].cmd = "rm" /\ taskLog[t][i].res

(***************************************************************************)
(* writeFile followed by readFile                                          *)
(***************************************************************************)
\* characters of a content: a, the single quote, the newline, E, O, F
ContentChars == {97, 39, 10, 69, 79, 70}

RECURSIVE Contents(_)
Contents(n) ==
    IF n = 0 THEN {<<>>}
    ELSE Contents(n - 1)
         \cup { Append(s, c) : s \in Contents(n - 1), c \in ContentChars }

\* "f" and "d/f"
FilePaths == { <<102>>, <<100, 47, 102>> }

\* content.replace(/'/g, "'\\''")
RECURSIVE EscapeQuotes(_)
EscapeQuotes(content) ==
    IF content = <<>> THEN <<>>
    ELSE (IF Head(content) = 39 THEN <<39, 92, 39, 39>> ELSE <<Head(content)>>)
         \o EscapeQuotes(Tail(content))

\* EOF
Delimiter == <<69, 79, 70>>

\* `cat > '${filePath}' << 'EOF'\n${escapedContent}\nEOF`
WriteCommand(filePath, content) ==
    <<99, 97, 116, 32, 62, 32, 39>> \o filePath
        \o <<39, 32, 60, 60, 32, 39>> \o Delimiter \o <<39, 10>>
        \o EscapeQuotes(content) \o <<10>> \o Delimiter

\* `cat '${filePath}'`
ReadCommand(filePath) == <<99, 97, 116, 32, 39>> \o filePath \o <<39>>

\* the lines of a script
RECURSIVE SplitLines(_, _)
SplitLines(s, line) ==
    IF s = <<>> THEN <<line>>
    ELSE IF Head(s) = 10 THEN <<line>> \o SplitLines(Tail(s), <<>>)
    ELSE SplitLines(Tail(s), Append(line, Head(s)))

RECURSIVE JoinLines(_)
JoinLines(lines) ==
    IF lines = <<>> THEN <<>> ELSE Head(lines) \o <<10>> \o JoinLines(Tail(lines))

\* sh -c on the script of writeFile. The delimiter of the here-document is
\* quoted, so its lines are taken as they are, up to the first line that is
\* the delimiter, each with its newline. What follows that line is run as
\* further commands, the last of them the word EOF: the script then ends
\* with a non-zero status.
ShWrite(script) ==
    LET lines == SplitLines(script, <<>>)
        end == CHOOSE i \in 2..Len(lines) :
                    /\ lines[i] = Delimiter
                    /\ \A j \in 2..(i - 1) : lines[j] # Delimiter
    IN  [success |-> end = Len(lines),
         path |-> SubSeq(lines[1], 8, Len(lines[1]) - 10),
         content |-> JoinLines(SubSeq(lines, 2, end - 1))]

\* sh -c on the script of readFile: cat writes the bytes of the file
ShCat(script, file) ==
    IF SubSeq(script, 6, Len(script) - 1) = file.path
    THEN [success |-> TRUE, stdout |-> file.content]
    ELSE [success |-> FALSE, stdout |-> <<>>]

InitRoundTrip ==
    /\ Elsewhere
    /\ input \in [filePath : FilePaths, content : Contents(MaxContentLen)]
    /\ output = <<>>

\* writeFile(s, filePath, content): the command runs in the environment
WriteFile ==
    /\ output = <<>>
    /\ output' = <<ShWrite(WriteCommand(input.filePath, input.content))>>
    /\ UNCHANGED <<rtVars, isCustomImage, customContainerName, cleanupPc, pwVars, input,
                   clVars, exVars, seVars>>

\* readFile(s, filePath) after a writeFile that did not throw: return result.stdout
ReadFile ==
    /\ Len(output) = 1
    /\ output[1].success
    /\ output' = Append(output, ShCat(ReadCommand(input.filePath), output[1]).stdout)
    /\ UNCHANGED <<rtVars, isCustomImage, customContainerName, cleanupPc, pwVars, input,
                   clVars, exVars, seVars>>

NextRoundTrip == WriteFile \/ ReadFile

SpecRoundTrip == InitRoundTrip /\ [][NextRoundTrip]_vars

\* C37: after a successful writeFile(s, path, c), readFile(s, path) returns
\* exactly c, whatever c contains.
C37_RoundTrip == Len(output) = 2 => output[2] = input.content

====
